---- MODULE Spec2Model ----
(***************************************************************************)
(* A model of the two API clients of the multitool repository:             *)
(*   tracker_lib::TrackerClient  (src/tracker_lib/src/api_client.rs,       *)
(*                                task.rs, search.rs)                      *)
(*   llm_lib::LlmClient          (src/llm_lib/src/client.rs)               *)
(* and of the terminal interface that calls them (src/cli/src/tui), under  *)
(* its own specification TuiSpec.                                          *)
(*                                                                         *)
(* A client is constructed (from the environment or from an explicit      *)
(* token / configuration), then used for calls.  One client call is in     *)
(* progress at a time.  A call builds its request, sends it (the only      *)
(* suspension point that talks to the network), and the remote side        *)
(* answers with a transport failure or with a response (status, headers,   *)
(* body) that the client classifies.                                       *)
(*                                                                         *)
(* Strings that the code inspects character by character (resource paths,  *)
(* numeric header values) are sequences of one-character strings; strings  *)
(* the code only passes along are TLA+ strings.                            *)
(***************************************************************************)
EXTENDS Integers, Sequences, FiniteSets, TLC

VARIABLES
    pc,        \* "start" (no client) | "idle" (a client, no call) |
               \* "awaiting" (inside request.send().await) | "done"
    client,    \* the constructed client: its configuration and transport
    call,      \* the constructor or client method being executed
    requests,  \* the HTTP requests sent during the current call, in order
    resp,      \* what the network delivered to the current call
    result,    \* the value the call returned
    app,       \* the terminal interface: its view, input and output
    events,    \* the key presses the terminal has queued, oldest first
    handled    \* how many key presses the run loop has read

tui == <<app, events, handled>>

vars == <<pc, client, call, requests, resp, result, app, events, handled>>

(***************************************************************************)
(* Bounds of the model.                                                    *)
(***************************************************************************)
MaxPathLen == 2
MaxHeaderLen == 1

PathChars == {"/", "a"}
HeaderChars == {"1", "x"}

SeqsUpTo(S, n) == UNION {[1..k -> S] : k \in 0..n}

Paths == SeqsUpTo(PathChars, MaxPathLen)

(***************************************************************************)
(* Option<T>.                                                              *)
(***************************************************************************)
None == [some |-> FALSE]
Some(x) == [some |-> TRUE, v |-> x]
IsSome(o) == o.some

(***************************************************************************)
(* TrackerConfig::new(oauth_token): the default configuration around the   *)
(* given token.  TrackerConfig is the one the tests build.                 *)
(***************************************************************************)
TrackerConfigNew(oauth_token) ==
    [base_url    |-> <<"https://st-api.yandex-team.ru">>,
     api_version |-> <<"v3">>,
     oauth_token |-> oauth_token,
     org_id      |-> None,
     language    |-> "ru"]

TrackerConfig == TrackerConfigNew("tracker-token")

(***************************************************************************)
(* str::trim_start_matches('/'): drops every leading slash.                *)
(***************************************************************************)
RECURSIVE TrimStartMatches(_)
TrimStartMatches(s) ==
    IF s # <<>> /\ Head(s) = "/" THEN TrimStartMatches(Tail(s)) ELSE s

(***************************************************************************)
(* TrackerClient::build_url: format!("{}/{}/{}", base_url, api_version,    *)
(* path) with the leading slashes of the resource path removed.            *)
(***************************************************************************)
(* The URL without the trim of the resource path. *)
build_url_untrimmed(resource_path) ==
    client.config.base_url \o <<"/">> \o client.config.api_version
        \o <<"/">> \o resource_path

build_url(resource_path) ==
    LET path == TrimStartMatches(resource_path)
    IN  client.config.base_url \o <<"/">> \o client.config.api_version
            \o <<"/">> \o path

(***************************************************************************)
(* Text and JSON.  A readable body is its own raw text: either text that   *)
(* is not JSON, or the text of a JSON value.  serde_json::Value is a       *)
(* tagged record; a JSON object is a function from its keys.               *)
(***************************************************************************)
Text(s) == [t |-> "text", s |-> s]
JsonText(v) == [t |-> "json", v |-> v]
ReadFailed == [t |-> "readfail"]

JNull == [t |-> "null"]
JStr(s) == [t |-> "str", s |-> s]
JNum(n) == [t |-> "num", n |-> n]
JArr(a) == [t |-> "arr", a |-> a]
JObj(o) == [t |-> "obj", o |-> o]
JBool(b) == [t |-> "bool", b |-> b]

IsJStr(v) == v.t = "str"
HasKey(v, k) == v.t = "obj" /\ k \in DOMAIN v.o

(***************************************************************************)
(* The statuses the remote side answers with, and StatusCode::is_success.  *)
(***************************************************************************)
Statuses == {200, 201, 304, 401, 403, 404, 429, 500}

is_success(status) == 200 <= status /\ status <= 299

(***************************************************************************)
(* Header values.  Absent is a header the response does not carry.         *)
(***************************************************************************)
Absent == [present |-> FALSE]
Header(s) == [present |-> TRUE, s |-> s]

HeaderValues == {Absent} \cup {Header(s) : s \in SeqsUpTo(HeaderChars, MaxHeaderLen)}

Digits == {"0", "1", "2", "3", "4", "5", "6", "7", "8", "9"}

DigitValue(c) ==
    CASE c = "0" -> 0 [] c = "1" -> 1 [] c = "2" -> 2 [] c = "3" -> 3
      [] c = "4" -> 4 [] c = "5" -> 5 [] c = "6" -> 6 [] c = "7" -> 7
      [] c = "8" -> 8 [] c = "9" -> 9

RECURSIVE DecimalValue(_)
DecimalValue(ds) ==
    IF ds = <<>> THEN 0
    ELSE 10 * DecimalValue(SubSeq(ds, 1, Len(ds) - 1)) + DigitValue(ds[Len(ds)])

(***************************************************************************)
(* str::parse for u32 / u64: an optional '+', then one or more decimal     *)
(* digits, nothing else.  (Values beyond the integer's width do not parse  *)
(* either; header values of MaxHeaderLen characters never get that far.)   *)
(***************************************************************************)
(* parse().unwrap_or(0) in place of parse().ok(). *)
ParseUnsignedOrZero(s) ==
    LET ds == IF s # <<>> /\ Head(s) = "+" THEN Tail(s) ELSE s
    IN  IF ds = <<>> \/ \E i \in 1..Len(ds) : ds[i] \notin Digits
        THEN Some(0)
        ELSE Some(DecimalValue(ds))

ParseUnsigned(s) ==
    LET ds == IF s # <<>> /\ Head(s) = "+" THEN Tail(s) ELSE s
    IN  IF ds = <<>> \/ \E i \in 1..Len(ds) : ds[i] \notin Digits
        THEN None
        ELSE Some(DecimalValue(ds))

(***************************************************************************)
(* headers().get(name).and_then(|v| v.to_str().ok())                       *)
(*                    .and_then(|v| v.parse().ok())                        *)
(***************************************************************************)
ParseHeader(h) ==
    IF h.present THEN ParseUnsigned(h.s) ELSE None

(***************************************************************************)
(* Result<T, E>, and the error values of TrackerError and LlmError.        *)
(***************************************************************************)
Ok(x) == [ok |-> TRUE, v |-> x]
Err(e) == [ok |-> FALSE, e |-> e]

RequestFailed == [kind |-> "RequestFailed"]
JsonParseFailed == [kind |-> "JsonParseFailed"]
Unauthorized == [kind |-> "Unauthorized"]
Forbidden == [kind |-> "Forbidden"]
NotFound(resource) == [kind |-> "NotFound", resource |-> resource]
ApiError(status, message) ==
    [kind |-> "ApiError", status |-> status, message |-> message]
AuthError == [kind |-> "AuthError"]
RateLimitExceeded(retry_after) ==
    [kind |-> "RateLimitExceeded", retry_after |-> retry_after]
InvalidRequest(message) == [kind |-> "InvalidRequest", message |-> message]
ConfigError(message) == [kind |-> "ConfigError", message |-> message]

(***************************************************************************)
(* The responses of the remote side.  A response that arrived has a        *)
(* status, the headers the clients look at, and a body; reading the body   *)
(* can still fail (ReadFailed).                                            *)
(***************************************************************************)
Response(status, total_pages, total_count, retry_after, body) ==
    [arrived |-> TRUE, status |-> status,
     headers |-> [total_pages |-> total_pages, total_count |-> total_count,
                  retry_after |-> retry_after],
     body |-> body]

(***************************************************************************)
(* Response::text(): the raw body text, or an error when the body cannot   *)
(* be read.  Response::json::<Value>(): the body parsed as JSON, or an     *)
(* error when it cannot be read or is not JSON.                            *)
(***************************************************************************)
response_text(response) ==
    IF response.body = ReadFailed THEN Err(RequestFailed) ELSE Ok(response.body)

response_json(response) ==
    IF response.body.t = "json" THEN Ok(response.body.v) ELSE Err(RequestFailed)

(***************************************************************************)
(* TrackerClient::handle_response, in the order of the code: the           *)
(* pagination headers, then the status, then the body.                     *)
(***************************************************************************)
(* Metadata only when both headers parse. *)
pagination_meta_both(headers) ==
    LET total_pages == ParseHeader(headers.total_pages)
        total_count == ParseHeader(headers.total_count)
    IN  IF IsSome(total_pages) /\ IsSome(total_count)
        THEN Some([total_pages |-> total_pages, total_count |-> total_count])
        ELSE None

pagination_meta(headers) ==
    LET total_pages == ParseHeader(headers.total_pages)
        total_count == ParseHeader(headers.total_count)
    IN  IF IsSome(total_pages) \/ IsSome(total_count)
        THEN Some([total_pages |-> total_pages, total_count |-> total_count])
        ELSE None

(* A client that drops the body of an error response. *)
tracker_error_text_dropped(response) == Text("Unknown error")

tracker_error_text(response) ==
    LET text == response_text(response)
    IN  IF text.ok THEN text.v ELSE Text("Unknown error")

(* The match without its 401 arm. *)
tracker_status_error_no_401(status, error_text) ==
    CASE status = 403 -> Forbidden
      [] status = 404 -> NotFound(error_text)
      [] OTHER        -> ApiError(status, error_text)

(* The match with a 429 arm, as in the LLM client. *)
tracker_status_error_with_429(status, error_text) ==
    CASE status = 401 -> Unauthorized
      [] status = 403 -> Forbidden
      [] status = 404 -> NotFound(error_text)
      [] status = 429 -> RateLimitExceeded(None)
      [] OTHER        -> ApiError(status, error_text)

tracker_status_error(status, error_text) ==
    CASE status = 401 -> Unauthorized
      [] status = 403 -> Forbidden
      [] status = 404 -> NotFound(error_text)
      [] OTHER        -> ApiError(status, error_text)

handle_response(response) ==
    IF ~is_success(response.status)
    THEN Err(tracker_status_error(response.status, tracker_error_text(response)))
    ELSE LET json_value == response_json(response)
         IN  IF json_value.ok
             THEN Ok([value |-> json_value.v,
                      meta |-> pagination_meta(response.headers)])
             ELSE json_value

(***************************************************************************)
(* TrackerClient::prepare_request and the request each method builds.      *)
(* query.ordered holds the pairs added one by one with .query(&[..]);      *)
(* query.params is the caller's HashMap, whose order is not fixed.         *)
(***************************************************************************)
prepare_request(method, url) ==
    [client        |-> "tracker",
     method        |-> method,
     url           |-> url,
     authorization |-> <<"OAuth ", client.config.oauth_token>>,
     org_id        |-> client.config.org_id,
     language      |-> client.config.language,
     ordered       |-> <<>>,
     params        |-> None,
     body          |-> None]

with_query(request, query_params) ==
    IF IsSome(query_params) THEN [request EXCEPT !.params = query_params]
    ELSE request

with_json(request, body) == [request EXCEPT !.body = Some(body)]

get_request(resource_path, query_params) ==
    with_query(prepare_request("GET", build_url(resource_path)), query_params)

get_paginated_request(resource_path, pagination, query_params) ==
    LET r0 == prepare_request("GET", build_url(resource_path))
        r1 == IF IsSome(pagination.per_page)
              THEN [r0 EXCEPT !.ordered = Append(@, <<"perPage", pagination.per_page.v>>)]
              ELSE r0
        r2 == IF IsSome(pagination.page)
              THEN [r1 EXCEPT !.ordered = Append(@, <<"page", pagination.page.v>>)]
              ELSE r1
    IN  with_query(r2, query_params)

post_request(resource_path, body, query_params) ==
    with_query(with_json(prepare_request("POST", build_url(resource_path)), body),
               query_params)

patch_request(resource_path, body, query_params) ==
    with_query(with_json(prepare_request("PATCH", build_url(resource_path)), body),
               query_params)

delete_request(resource_path, query_params) ==
    with_query(prepare_request("DELETE", build_url(resource_path)), query_params)

(***************************************************************************)
(* ExpandField::as_str and the comma-joined expand value.                  *)
(***************************************************************************)
ExpandFields == {"Transitions", "Attachments"}

as_str(field) ==
    CASE field = "Transitions" -> "transitions"
      [] field = "Attachments" -> "attachments"

RECURSIVE Join(_, _)
Join(strs, sep) ==
    IF strs = <<>> THEN <<>>
    ELSE IF Len(strs) = 1 THEN <<strs[1]>>
    ELSE <<strs[1], sep>> \o Join(Tail(strs), sep)

(* The names joined in the reverse of the order given. *)
expand_value_reversed(expand) ==
    Join([i \in 1..Len(expand) |-> as_str(expand[Len(expand) + 1 - i])], ",")

expand_value(expand) == Join([i \in 1..Len(expand) |-> as_str(expand[i])], ",")

StrIssues == <<"i", "s", "s", "u", "e", "s", "/">>
StrSearch == StrIssues \o <<"_", "s", "e", "a", "r", "c", "h">>

(***************************************************************************)
(* TrackerClient::get_issue up to the request it sends.                    *)
(***************************************************************************)
get_issue_query(params) ==
    IF IsSome(params) /\ params.v.expand # <<>>
    THEN Some([expand |-> expand_value(params.v.expand)])
    ELSE None

get_issue_request(issue_id, params) ==
    get_request(StrIssues \o issue_id, get_issue_query(params))

(***************************************************************************)
(* serde: Issue from a JSON value.  key and summary are required strings.  *)
(* An Option field is None when the object does not carry it or carries    *)
(* null; a field marked #[serde(default)] takes its default when the       *)
(* object does not carry it.  A field of the wrong JSON type fails the     *)
(* whole decode; keys the struct does not know are ignored.  The nested    *)
(* structs (User, Status, Priority, ...) are objects whose fields are all  *)
(* optional; they are kept as the JSON they came from.                     *)
(***************************************************************************)
IssueOptionalStrings ==
    [self_link |-> "self", id |-> "id",
     last_comment_updated_at |-> "lastCommentUpdatedAt",
     description |-> "description", created_at |-> "createdAt",
     updated_at |-> "updatedAt"]

IssueOptionalNumbers == [version |-> "version"]

IssueOptionalStructs ==
    [parent |-> "parent", updated_by |-> "updatedBy", issue_type |-> "type",
     priority |-> "priority", created_by |-> "createdBy", assignee |-> "assignee",
     project |-> "project", queue |-> "queue", status |-> "status",
     previous_status |-> "previousStatus"]

IssueDefaultStringLists == [aliases |-> "aliases", tags |-> "tags"]
IssueDefaultStructLists == [sprint |-> "sprint", followers |-> "followers"]

(* Option<T>: absent, null, or a value of the JSON type of T. *)
OptionalOfType(v, k, type) == HasKey(v, k) => (v.o[k].t \in {type, "null"})

(* #[serde(default)] Vec<T>: absent, or an array of the JSON type of T. *)
DefaultListOfType(v, k, type) ==
    HasKey(v, k) =>
        (v.o[k].t = "arr" /\ \A i \in 1..Len(v.o[k].a) : v.o[k].a[i].t = type)

OptionField(v, k) ==
    IF HasKey(v, k) /\ v.o[k].t # "null" THEN Some(v.o[k]) ELSE None

DefaultListField(v, k) == IF HasKey(v, k) THEN v.o[k].a ELSE <<>>

IssueDecodes(v) ==
    /\ v.t = "obj"
    /\ HasKey(v, "key") /\ IsJStr(v.o.key)
    /\ HasKey(v, "summary") /\ IsJStr(v.o.summary)
    /\ \A f \in DOMAIN IssueOptionalStrings :
            OptionalOfType(v, IssueOptionalStrings[f], "str")
    /\ \A f \in DOMAIN IssueOptionalNumbers :
            OptionalOfType(v, IssueOptionalNumbers[f], "num")
    /\ \A f \in DOMAIN IssueOptionalStructs :
            OptionalOfType(v, IssueOptionalStructs[f], "obj")
    /\ \A f \in DOMAIN IssueDefaultStringLists :
            DefaultListOfType(v, IssueDefaultStringLists[f], "str")
    /\ \A f \in DOMAIN IssueDefaultStructLists :
            DefaultListOfType(v, IssueDefaultStructLists[f], "obj")
    /\ HasKey(v, "votes") => v.o.votes.t = "num"
    /\ HasKey(v, "favorite") => v.o.favorite.t = "bool"

IssueOptionKeys ==
    [f \in DOMAIN IssueOptionalStrings \cup DOMAIN IssueOptionalNumbers
            \cup DOMAIN IssueOptionalStructs |->
        IF f \in DOMAIN IssueOptionalStrings THEN IssueOptionalStrings[f]
        ELSE IF f \in DOMAIN IssueOptionalNumbers THEN IssueOptionalNumbers[f]
        ELSE IssueOptionalStructs[f]]

IssueListKeys ==
    [f \in DOMAIN IssueDefaultStringLists \cup DOMAIN IssueDefaultStructLists |->
        IF f \in DOMAIN IssueDefaultStringLists THEN IssueDefaultStringLists[f]
        ELSE IssueDefaultStructLists[f]]

IssueDecode(v) ==
    IF IssueDecodes(v)
    THEN Ok([f \in {"key", "summary", "votes", "favorite"}
                    \cup DOMAIN IssueOptionKeys \cup DOMAIN IssueListKeys |->
                CASE f = "key"      -> JStr(v.o.key.s)
                  [] f = "summary"  -> JStr(v.o.summary.s)
                  [] f = "votes"    -> IF HasKey(v, "votes") THEN v.o.votes ELSE JNum(0)
                  [] f = "favorite" -> IF HasKey(v, "favorite") THEN v.o.favorite
                                       ELSE JBool(FALSE)
                  [] f \in DOMAIN IssueOptionKeys -> OptionField(v, IssueOptionKeys[f])
                  [] OTHER -> JArr(DefaultListField(v, IssueListKeys[f]))])
    ELSE Err(JsonParseFailed)

(* Issue with votes, favorite and the lists required, as without           *)
(* #[serde(default)].                                                      *)
IssueFromValueWithoutDefaults(v) ==
    IF /\ v.t = "obj"
       /\ \A k \in {"votes", "favorite", "aliases", "tags", "sprint", "followers"} :
            HasKey(v, k)
    THEN IssueDecode(v)
    ELSE Err(JsonParseFailed)

IssueFromValue(v) == IssueDecode(v)

IssuesFromValue(v) ==
    IF v.t = "arr" /\ \A i \in 1..Len(v.a) : IssueFromValue(v.a[i]).ok
    THEN Ok([i \in 1..Len(v.a) |-> IssueFromValue(v.a[i]).v])
    ELSE Err(JsonParseFailed)

(***************************************************************************)
(* get_issue / search_issues after self.get / self.post has returned.      *)
(***************************************************************************)
get_issue_finish(got) ==
    IF got.ok THEN IssueFromValue(got.v.value) ELSE got

search_issues_finish(got) ==
    IF got.ok THEN IssuesFromValue(got.v.value) ELSE got

(***************************************************************************)
(* The values of the request fields and their JSON.  serde_json writes a   *)
(* float that is not finite (NaN, an infinity) as null; a                  *)
(* serde_json::Value is its own JSON.                                      *)
(***************************************************************************)
F32(n) == [t |-> "f32", finite |-> TRUE, n |-> n]
NaN == [t |-> "f32", finite |-> FALSE]
U32(n) == [t |-> "u32", n |-> n]
String(s) == [t |-> "String", s |-> s]
VecString(a) == [t |-> "Vec<String>", a |-> a]

ToJson(x) ==
    CASE x.t = "f32"         -> IF x.finite THEN JNum(x.n) ELSE JNull
      [] x.t = "u32"         -> JNum(x.n)
      [] x.t = "String"      -> JStr(x.s)
      [] x.t = "Vec<String>" -> JArr([i \in 1..Len(x.a) |-> JStr(x.a[i])])
      [] OTHER               -> x

(***************************************************************************)
(* serde with skip_serializing_if = "Option::is_none": the JSON object     *)
(* holds exactly the fields that are Some.  rename gives the JSON key.     *)
(***************************************************************************)
(* serde without skip_serializing_if: a field that is None is written as   *)
(* null.                                                                   *)
SerializeOptionsWithNulls(rec, rename) ==
    LET keys == {rename[f] : f \in DOMAIN rec}
    IN  [k \in keys |->
            LET f == CHOOSE g \in DOMAIN rec : rename[g] = k
            IN  IF IsSome(rec[f]) THEN ToJson(rec[f].v) ELSE JNull]

SerializeOptions(rec, rename) ==
    LET set == {f \in DOMAIN rec : IsSome(rec[f])}
        keys == {rename[f] : f \in set}
    IN  [k \in keys |-> ToJson(rec[CHOOSE f \in set : rename[f] = k].v)]

SearchRequestKeys ==
    [filter |-> "filter", query |-> "query", keys |-> "keys", queue |-> "queue",
     filter_id |-> "filterId", order |-> "order"]

SerializeSearchRequest(request) == JObj(SerializeOptions(request, SearchRequestKeys))

(***************************************************************************)
(* TrackerClient::search_issues up to the request it sends.                *)
(***************************************************************************)
SearchParamKeys ==
    [per_page |-> "perPage", page |-> "page", id |-> "id",
     scroll_type |-> "scrollType", per_scroll |-> "perScroll",
     scroll_ttl_millis |-> "scrollTTLMillis", scroll_id |-> "scrollId"]

search_issues_query(params) ==
    IF ~IsSome(params) THEN None
    ELSE LET set == {f \in DOMAIN SearchParamKeys : IsSome(params.v[f])}
             rest == [k \in {SearchParamKeys[f] : f \in set} |->
                        params.v[CHOOSE f \in set : SearchParamKeys[f] = k].v]
             query_params ==
                 [k \in DOMAIN rest \cup (IF params.v.expand # <<>> THEN {"expand"} ELSE {}) |->
                     IF k = "expand" THEN expand_value(params.v.expand) ELSE rest[k]]
         IN  IF DOMAIN query_params = {} THEN None ELSE Some(query_params)

search_issues_request(request, params) ==
    post_request(StrSearch, SerializeSearchRequest(request), search_issues_query(params))

(***************************************************************************)
(* The configuration LlmConfig::new builds around the key and the model,   *)
(* and the request chat_completion builds.  LlmConfig is the one the       *)
(* tests build.                                                            *)
(***************************************************************************)
LlmConfigOf(api_key, model) ==
    [api_key      |-> api_key,
     base_url     |-> <<"https://openrouter.ai/api/v1">>,
     model        |-> model,
     timeout_secs |-> 120,
     site_url     |-> None,
     app_name     |-> None]

LlmConfig == LlmConfigOf("llm-key", "model")

Message(role, content) == [role |-> role, content |-> content]

DefaultCompletionOptions ==
    [temperature |-> None, max_tokens |-> None, top_p |-> None,
     frequency_penalty |-> None, presence_penalty |-> None, stop |-> None]

unwrap_or_default(options) ==
    IF IsSome(options) THEN options.v ELSE DefaultCompletionOptions

(* serde: Message, and ChatCompletionRequest with its options flattened    *)
(* into the object next to model and messages.                             *)
CompletionOptionKeys ==
    [temperature |-> "temperature", max_tokens |-> "max_tokens", top_p |-> "top_p",
     frequency_penalty |-> "frequency_penalty",
     presence_penalty |-> "presence_penalty", stop |-> "stop"]

SerializeMessage(message) ==
    JObj([role |-> JStr(message.role), content |-> JStr(message.content)])

SerializeChatCompletionRequest(request) ==
    LET options == SerializeOptions(request.options, CompletionOptionKeys)
    IN  JObj([k \in {"model", "messages"} \cup DOMAIN options |->
                CASE k = "model" -> JStr(request.model)
                  [] k = "messages" ->
                        JArr([i \in 1..Len(request.messages) |->
                                SerializeMessage(request.messages[i])])
                  [] OTHER -> options[k]])

chat_completion_request(messages, options) ==
    [client        |-> "llm",
     method        |-> "POST",
     url           |-> client.config.base_url \o <<"/chat/completions">>,
     authorization |-> <<"Bearer ", client.config.api_key>>,
     referer       |-> client.config.site_url,
     title         |-> client.config.app_name,
     body          |-> Some(SerializeChatCompletionRequest(
                            [model |-> client.config.model, messages |-> messages,
                             options |-> unwrap_or_default(options)]))]

(***************************************************************************)
(* serde: ChatCompletionResponse and ErrorResponse from JSON.              *)
(***************************************************************************)
IsJNum(v) == v.t = "num"
OptionalJStr(v, k) == HasKey(v, k) => (v.o[k].t \in {"str", "null"})

MessageFromValue(v) ==
    /\ HasKey(v, "role") /\ IsJStr(v.o.role)
    /\ v.o.role.s \in {"system", "user", "assistant"}
    /\ HasKey(v, "content") /\ IsJStr(v.o.content)

ChoiceFromValue(v) ==
    /\ HasKey(v, "index") /\ IsJNum(v.o.index)
    /\ HasKey(v, "message") /\ MessageFromValue(v.o.message)
    /\ OptionalJStr(v, "finish_reason")

UsageFromValue(v) ==
    \A k \in {"prompt_tokens", "completion_tokens", "total_tokens"} :
        HasKey(v, k) /\ IsJNum(v.o[k])

CompletionFromValue(v) ==
    IF /\ HasKey(v, "id") /\ IsJStr(v.o.id)
       /\ HasKey(v, "model") /\ IsJStr(v.o.model)
       /\ HasKey(v, "choices") /\ v.o.choices.t = "arr"
       /\ \A i \in 1..Len(v.o.choices.a) : ChoiceFromValue(v.o.choices.a[i])
       /\ HasKey(v, "usage") /\ UsageFromValue(v.o.usage)
       /\ HasKey(v, "created") /\ IsJNum(v.o.created)
    THEN Ok([id |-> v.o.id.s, model |-> v.o.model.s,
             choices |-> [i \in 1..Len(v.o.choices.a) |->
                             Message(v.o.choices.a[i].o.message.o.role.s,
                                     v.o.choices.a[i].o.message.o.content.s)],
             total_tokens |-> v.o.usage.o.total_tokens.n])
    ELSE Err(RequestFailed)

ErrorResponseFromStr(text) ==
    IF /\ text.t = "json"
       /\ HasKey(text.v, "error")
       /\ HasKey(text.v.o.error, "message") /\ IsJStr(text.v.o.error.o.message)
       /\ OptionalJStr(text.v.o.error, "type")
       /\ OptionalJStr(text.v.o.error, "code")
    THEN Ok([message |-> Text(text.v.o.error.o.message.s)])
    ELSE Err(JsonParseFailed)

(***************************************************************************)
(* LlmClient::chat_completion after request_builder.send() has returned a  *)
(* response: the match on the status.                                      *)
(***************************************************************************)
llm_api_error(status, error_body) ==
    LET error_response == ErrorResponseFromStr(error_body)
    IN  IF error_response.ok
        THEN ApiError(status, error_response.v.message)
        ELSE ApiError(status, error_body)

(* The match with the 403 and 404 arms of the tracker client. *)
chat_completion_finish_tracker_arms(response) ==
    CASE response.status = 200 ->
            LET json_value == response_json(response)
            IN  IF json_value.ok THEN CompletionFromValue(json_value.v)
                ELSE json_value
      [] response.status = 401 -> Err(AuthError)
      [] response.status = 403 -> Err(Forbidden)
      [] response.status = 404 -> Err(NotFound(tracker_error_text(response)))
      [] response.status = 429 ->
            Err(RateLimitExceeded(ParseHeader(response.headers.retry_after)))
      [] OTHER ->
            LET error_body == response_text(response)
            IN  IF error_body.ok
                THEN Err(llm_api_error(response.status, error_body.v))
                ELSE error_body

chat_completion_finish(response) ==
    CASE response.status = 200 ->
            LET json_value == response_json(response)
            IN  IF json_value.ok THEN CompletionFromValue(json_value.v)
                ELSE json_value
      [] response.status = 401 -> Err(AuthError)
      [] response.status = 429 ->
            Err(RateLimitExceeded(ParseHeader(response.headers.retry_after)))
      [] OTHER ->
            LET error_body == response_text(response)
            IN  IF error_body.ok
                THEN Err(llm_api_error(response.status, error_body.v))
                ELSE error_body

(***************************************************************************)
(* ChatCompletionResponse::content and the tail of complete /              *)
(* complete_with_system.                                                   *)
(***************************************************************************)
(* The content of the last choice in place of the first. *)
content_of_last(completion) ==
    IF completion.choices = <<>> THEN None
    ELSE Some(completion.choices[Len(completion.choices)].content)

content(completion) ==
    IF completion.choices = <<>> THEN None
    ELSE Some(completion.choices[1].content)

complete_finish(got) ==
    IF ~got.ok THEN got
    ELSE IF IsSome(content(got.v)) THEN Ok(content(got.v).v)
    ELSE Err(InvalidRequest("No content in response"))

(***************************************************************************)
(* What a call returns once its one response has arrived.                  *)
(***************************************************************************)
TrackerOps == {"get", "get_paginated", "post", "patch", "delete",
               "get_issue", "search_issues"}
LlmOps == {"chat_completion", "complete", "complete_with_system"}

Finish(c, response) ==
    CASE c.op \in {"get", "get_paginated", "post", "patch", "delete"} ->
            handle_response(response)
      [] c.op = "get_issue" -> get_issue_finish(handle_response(response))
      [] c.op = "search_issues" -> search_issues_finish(handle_response(response))
      [] c.op = "chat_completion" -> chat_completion_finish(response)
      [] c.op \in {"complete", "complete_with_system"} ->
            complete_finish(chat_completion_finish(response))

(***************************************************************************)
(* The arguments the callers pass.                                         *)
(***************************************************************************)
QueryParamChoices == {None, Some([filter |-> <<"x">>])}

DefaultPaginationParams == [per_page |-> Some(50), page |-> Some(1)]

PaginationChoices == {DefaultPaginationParams, [per_page |-> None, page |-> Some(2)]}

RequestBodies == {JObj([summary |-> JStr("New")])}

IssueIds == {<<"T", "1">>}

GetIssueParamChoices ==
    {None} \cup {Some([expand |-> e]) :
                    e \in {<<>>, <<"Transitions">>, <<"Transitions", "Attachments">>,
                           <<"Attachments", "Transitions">>}}

DefaultSearchRequest ==
    [filter |-> None, query |-> None, keys |-> None, queue |-> None,
     filter_id |-> None, order |-> None]

SearchRequests ==
    {[DefaultSearchRequest EXCEPT !.filter = f, !.query = q, !.keys = k] :
        f \in {None, Some(JObj([queue |-> JStr("TREK")])), Some(JNull)},
        q \in {None, Some(String("Queue: TREK"))},
        k \in {None, Some(VecString(<<"TEST-1">>))}}

DefaultSearchParams ==
    [expand |-> <<>>, per_page |-> None, page |-> None, id |-> None,
     scroll_type |-> None, per_scroll |-> None, scroll_ttl_millis |-> None,
     scroll_id |-> None]

SearchParamChoices ==
    {None, Some(DefaultSearchParams),
     Some([DefaultSearchParams EXCEPT !.expand = <<"Attachments", "Transitions">>]),
     Some([DefaultSearchParams EXCEPT !.expand = <<"Transitions", "Attachments">>,
                                      !.per_page = Some(50)])}

MessageLists ==
    {<<>>, <<Message("user", "hi")>>,
     <<Message("system", "be brief"), Message("user", "hi")>>}

CompletionOptionChoices ==
    {None}
    \cup {Some([DefaultCompletionOptions EXCEPT !.temperature = t, !.max_tokens = m]) :
            t \in {None, Some(F32(1)), Some(NaN)}, m \in {None, Some(U32(100))}}
    \cup {Some([DefaultCompletionOptions EXCEPT !.stop = Some(VecString(<<"END">>))])}

Prompts == {"hi", "plan my day"}
SystemPrompts == {"be brief"}

(***************************************************************************)
(* The bodies the remote side answers with.                                *)
(***************************************************************************)
IssueMinimal == JObj([key |-> JStr("TEST-1"), summary |-> JStr("Minimal task")])

IssueWithoutKey == JObj([summary |-> JStr("Minimal task")])
IssueWithoutSummary == JObj([key |-> JStr("TEST-1")])

IssueInProgress ==
    JObj([key |-> JStr("TREK-9844"), summary |-> JStr("Test task"),
          version |-> JNum(7), aliases |-> JArr(<<JStr("JUNE-3")>>),
          votes |-> JNum(5), favorite |-> JBool(TRUE),
          tags |-> JArr(<<JStr("bug"), JStr("urgent")>>),
          status |-> JObj([key |-> JStr("inProgress"), display |-> JStr("In progress")]),
          description |-> JNull])

TrackerBodies ==
    {ReadFailed, Text("not json"), JsonText(IssueMinimal),
     JsonText(IssueWithoutKey), JsonText(IssueWithoutSummary),
     JsonText(IssueInProgress), JsonText(JArr(<<IssueMinimal, IssueInProgress>>))}

ChoiceJson(index, text) ==
    JObj([index |-> JNum(index),
          message |-> JObj([role |-> JStr("assistant"), content |-> JStr(text)]),
          finish_reason |-> JStr("stop")])

CompletionJson(choices) ==
    JObj([id |-> JStr("id"), model |-> JStr("model"), choices |-> JArr(choices),
          usage |-> JObj([prompt_tokens |-> JNum(10), completion_tokens |-> JNum(20),
                          total_tokens |-> JNum(30)]),
          created |-> JNum(1)])

FieldKinds == {"absent", "null", "str", "num"}

FieldJson(kind, str, num) ==
    CASE kind = "str" -> JStr(str) [] kind = "num" -> JNum(num) [] kind = "null" -> JNull

(* {"error": {"message": .., "type": .., "code": ..}} with each field of   *)
(* the given kind.                                                         *)
EnvelopeJson(message, type, code) ==
    LET kind == [message |-> message, type |-> type, code |-> code]
        keys == {k \in DOMAIN kind : kind[k] # "absent"}
    IN  JObj([error |-> JObj([k \in keys |->
                CASE k = "message" -> FieldJson(message, "bad request", 7)
                  [] k = "type"    -> FieldJson(type, "invalid", 7)
                  [] k = "code"    -> FieldJson(code, "E400", 400)])])

LlmBodies ==
    {ReadFailed, Text("not json"), JsonText(JObj([id |-> JStr("id")]))}
    \cup {JsonText(CompletionJson(cs)) :
            cs \in {<<>>, <<ChoiceJson(0, "first")>>,
                    <<ChoiceJson(0, "first"), ChoiceJson(1, "second")>>}}
    \cup {JsonText(EnvelopeJson(m, t, c)) :
            m \in {"absent", "str", "num"}, t \in {"absent", "str"}, c \in FieldKinds}

(***************************************************************************)
(* The environment.  std::env::var(name) is Ok(value) for a variable that  *)
(* is set to Unicode text, Err(NotPresent) for one that is not set and     *)
(* Err(NotUnicode) for one whose value is not Unicode.                     *)
(***************************************************************************)
NotPresent == [set |-> FALSE, unicode |-> TRUE]
NotUnicode == [set |-> TRUE, unicode |-> FALSE]
EnvSet(s) == [set |-> TRUE, unicode |-> TRUE, s |-> s]

VarError(kind) == [kind |-> kind]

env_var(value) ==
    IF value.set /\ value.unicode THEN Ok(value.s)
    ELSE IF value.set THEN Err(VarError("NotUnicode"))
    ELSE Err(VarError("NotPresent"))

(***************************************************************************)
(* str::trim: drops the leading and the trailing whitespace.               *)
(***************************************************************************)
Whitespace == {" "}

RECURSIVE TrimStart(_)
TrimStart(s) ==
    IF s # <<>> /\ Head(s) \in Whitespace THEN TrimStart(Tail(s)) ELSE s

RECURSIVE TrimEnd(_)
TrimEnd(s) ==
    IF s # <<>> /\ s[Len(s)] \in Whitespace
    THEN TrimEnd(SubSeq(s, 1, Len(s) - 1)) ELSE s

Trim(s) == TrimEnd(TrimStart(s))

(***************************************************************************)
(* parse_work_proxy_url and TrackerClient::new.  reqwest::Proxy::all       *)
(* refuses a URL that does not parse (here: one with whitespace in its     *)
(* host); Client::builder().build() is taken to succeed.  The tracker      *)
(* client is built without a timeout.                                      *)
(***************************************************************************)
(* The value prefixed as it is set, trimmed of nothing.                     *)
parse_work_proxy_url_untrimmed(work_proxy_value) ==
    IF work_proxy_value = <<>>
    THEN Err(ConfigError("WORK_PROXY is set but empty"))
    ELSE Ok(<<"socks5://">> \o work_proxy_value)

parse_work_proxy_url(work_proxy_value) ==
    LET trimmed_value == Trim(work_proxy_value)
    IN  IF trimmed_value = <<>>
        THEN Err(ConfigError("WORK_PROXY is set but empty"))
        ELSE Ok(<<"socks5://">> \o trimmed_value)

ProxyAll(proxy_url) ==
    IF \E i \in 1..Len(proxy_url) : proxy_url[i] \in Whitespace
    THEN Err(ConfigError("invalid WORK_PROXY"))
    ELSE Ok(proxy_url)

NoClient == [kind |-> "none"]

TrackerClientNew(config, work_proxy) ==
    LET var == env_var(work_proxy)
    IN  IF var.ok
        THEN LET proxy_url == parse_work_proxy_url(var.v)
             IN  IF ~proxy_url.ok THEN proxy_url
                 ELSE IF ~ProxyAll(proxy_url.v).ok THEN ProxyAll(proxy_url.v)
                 ELSE Ok([kind |-> "tracker", config |-> config,
                          proxy |-> Some(proxy_url.v), timeout |-> None])
        ELSE IF var.e = VarError("NotPresent")
        THEN Ok([kind |-> "tracker", config |-> config,
                 proxy |-> None, timeout |-> None])
        ELSE Err(ConfigError("WORK_PROXY is not UTF-8"))

with_token(oauth_token, work_proxy) ==
    TrackerClientNew(TrackerConfigNew(oauth_token), work_proxy)

(* from_env with the token variable ignored: every environment gets a      *)
(* client.                                                                 *)
from_env_unchecked(tracker_token, work_proxy) ==
    with_token(IF env_var(tracker_token).ok THEN env_var(tracker_token).v ELSE "",
               work_proxy)

from_env(tracker_token, work_proxy) ==
    LET token == env_var(tracker_token)
    IN  IF ~token.ok
        THEN Err(ConfigError("TRACKER_TOKEN is not set"))
        ELSE with_token(token.v, work_proxy)

(***************************************************************************)
(* LlmConfig::new and LlmClient::new.  The LLM client is built with the    *)
(* timeout of its configuration.                                           *)
(***************************************************************************)
LlmConfigNew(model, open_router_token) ==
    LET api_key == env_var(open_router_token)
    IN  IF ~api_key.ok
        THEN Err(ConfigError("OPEN_ROUTER_TOKEN environment variable not set"))
        ELSE Ok(LlmConfigOf(api_key.v, model))

LlmClientNew(config) ==
    Ok([kind |-> "llm", config |-> config, proxy |-> None,
        timeout |-> Some(config.timeout_secs)])

(***************************************************************************)
(* The environments and the explicit arguments of the constructors.        *)
(***************************************************************************)
TrackerTokenValues == {NotPresent, NotUnicode, EnvSet(""), EnvSet("tracker-token")}
OpenRouterTokenValues == {NotPresent, NotUnicode, EnvSet(""), EnvSet("llm-key")}
WorkProxyValues ==
    {NotPresent, NotUnicode, EnvSet(<<>>), EnvSet(<<" ">>),
     EnvSet(<<" ", "h", " ">>), EnvSet(<<"h", " ", "h">>)}
Models == {"model"}

(***************************************************************************)
(* The state machine.                                                      *)
(***************************************************************************)
NoCall == [client |-> "none", op |-> "none"]
NoResponse == [arrived |-> FALSE, failed |-> FALSE]
TransportFailed == [arrived |-> FALSE, failed |-> TRUE]
NoResult == [ok |-> FALSE, e |-> [kind |-> "none"]]
NoApp == [kind |-> "none"]

Init ==
    /\ pc = "start"
    /\ client = NoClient
    /\ call = NoCall
    /\ requests = <<>>
    /\ resp = NoResponse
    /\ result = NoResult
    /\ app = NoApp
    /\ events = <<>>
    /\ handled = 0

(* request.send(): the request goes out and the call waits for the answer. *)
Send(c, request) ==
    /\ pc = "idle"
    /\ pc' = "awaiting"
    /\ call' = c
    /\ requests' = Append(requests, request)
    /\ UNCHANGED <<client, resp, result, tui>>

(* A constructor runs: the client exists exactly when it returned Ok.      *)
Construct(c, built) ==
    /\ pc = "start"
    /\ pc' = "done"
    /\ call' = c
    /\ result' = built
    /\ client' = IF built.ok THEN built.v ELSE NoClient
    /\ UNCHANGED <<requests, resp, tui>>

FromEnv ==
    /\ pc = "start"
    /\ \E tracker_token \in TrackerTokenValues, work_proxy \in WorkProxyValues :
        Construct([client |-> "tracker", op |-> "from_env",
                   env |-> [TRACKER_TOKEN |-> tracker_token, WORK_PROXY |-> work_proxy]],
                  from_env(tracker_token, work_proxy))

WithToken ==
    /\ pc = "start"
    /\ \E work_proxy \in WorkProxyValues :
        Construct([client |-> "tracker", op |-> "with_token",
                   env |-> [WORK_PROXY |-> work_proxy]],
                  with_token(TrackerConfig.oauth_token, work_proxy))

(* LlmConfig::new(model)? followed by LlmClient::new(config)?.             *)
LlmFromEnv ==
    /\ pc = "start"
    /\ \E model \in Models, open_router_token \in OpenRouterTokenValues :
        LET config == LlmConfigNew(model, open_router_token)
        IN  Construct([client |-> "llm", op |-> "LlmConfig::new",
                       env |-> [OPEN_ROUTER_TOKEN |-> open_router_token]],
                      IF config.ok THEN LlmClientNew(config.v) ELSE config)

(* LlmClient::new on a configuration built field by field.                 *)
LlmNew ==
    /\ pc = "start"
    /\ Construct([client |-> "llm", op |-> "LlmClient::new"], LlmClientNew(LlmConfig))

Get ==
    /\ pc = "idle" /\ client.kind = "tracker"
    /\ \E p \in Paths, q \in QueryParamChoices :
        Send([client |-> "tracker", op |-> "get", path |-> p], get_request(p, q))

GetPaginated ==
    /\ pc = "idle" /\ client.kind = "tracker"
    /\ \E p \in Paths, pg \in PaginationChoices, q \in QueryParamChoices :
        Send([client |-> "tracker", op |-> "get_paginated", path |-> p],
             get_paginated_request(p, pg, q))

Post ==
    /\ pc = "idle" /\ client.kind = "tracker"
    /\ \E p \in Paths, b \in RequestBodies, q \in QueryParamChoices :
        Send([client |-> "tracker", op |-> "post", path |-> p], post_request(p, b, q))

Patch ==
    /\ pc = "idle" /\ client.kind = "tracker"
    /\ \E p \in Paths, b \in RequestBodies, q \in QueryParamChoices :
        Send([client |-> "tracker", op |-> "patch", path |-> p], patch_request(p, b, q))

Delete ==
    /\ pc = "idle" /\ client.kind = "tracker"
    /\ \E p \in Paths, q \in QueryParamChoices :
        Send([client |-> "tracker", op |-> "delete", path |-> p], delete_request(p, q))

GetIssue ==
    /\ pc = "idle" /\ client.kind = "tracker"
    /\ \E id \in IssueIds, params \in GetIssueParamChoices :
        Send([client |-> "tracker", op |-> "get_issue", path |-> StrIssues \o id,
              issue_id |-> id, params |-> params],
             get_issue_request(id, params))

(* search_issues refusing a request that does not set exactly one of       *)
(* filter, query and keys.                                                 *)
SearchIssuesExactlyOneMode ==
    /\ pc = "idle" /\ client.kind = "tracker"
    /\ \E request \in SearchRequests, params \in SearchParamChoices :
        LET c == [client |-> "tracker", op |-> "search_issues", path |-> StrSearch,
                  request |-> request, params |-> params]
        IN  IF Cardinality({f \in {"filter", "query", "keys"} : IsSome(request[f])}) = 1
            THEN Send(c, search_issues_request(request, params))
            ELSE /\ pc' = "done"
                 /\ call' = c
                 /\ result' = Err(InvalidRequest("exactly one of filter, query, keys"))
                 /\ UNCHANGED <<client, requests, resp, tui>>

SearchIssues ==
    /\ pc = "idle" /\ client.kind = "tracker"
    /\ \E request \in SearchRequests, params \in SearchParamChoices :
        Send([client |-> "tracker", op |-> "search_issues", path |-> StrSearch,
              request |-> request, params |-> params],
             search_issues_request(request, params))

(* A chat_completion that sends whatever list it is given.                 *)
ChatCompletionCall_unchecked(op, args, messages, options) ==
    Send([client |-> "llm", op |-> op, args |-> args,
          messages |-> messages, options |-> options],
         chat_completion_request(messages, options))

(* chat_completion: an empty message list is refused before anything is    *)
(* sent.                                                                   *)
ChatCompletionCall(op, args, messages, options) ==
    IF messages = <<>>
    THEN /\ pc = "idle"
         /\ pc' = "done"
         /\ call' = [client |-> "llm", op |-> op, args |-> args,
                     messages |-> messages, options |-> options]
         /\ result' = Err(InvalidRequest("Messages cannot be empty"))
         /\ UNCHANGED <<client, requests, resp, tui>>
    ELSE Send([client |-> "llm", op |-> op, args |-> args,
               messages |-> messages, options |-> options],
              chat_completion_request(messages, options))

ChatCompletion ==
    /\ pc = "idle" /\ client.kind = "llm"
    /\ \E messages \in MessageLists, options \in CompletionOptionChoices :
        ChatCompletionCall("chat_completion",
                           [messages |-> messages, options |-> options],
                           messages, options)

Complete ==
    /\ pc = "idle" /\ client.kind = "llm"
    /\ \E prompt \in Prompts :
        ChatCompletionCall("complete", [prompt |-> prompt],
                           <<Message("user", prompt)>>, None)

CompleteWithSystem ==
    /\ pc = "idle" /\ client.kind = "llm"
    /\ \E system_prompt \in SystemPrompts, user_prompt \in Prompts :
        ChatCompletionCall("complete_with_system",
                           [system_prompt |-> system_prompt,
                            user_prompt |-> user_prompt],
                           <<Message("system", system_prompt),
                             Message("user", user_prompt)>>, None)

(* send() fails: no response was obtained; `?` returns the error.          *)
TransportFailure ==
    /\ pc = "awaiting"
    /\ pc' = "done"
    /\ resp' = TransportFailed
    /\ result' = Err(RequestFailed)
    /\ UNCHANGED <<client, call, requests, tui>>

(* A client that sends the request again when the response is an error.    *)
DeliverWithRetry(response) ==
    /\ pc = "awaiting"
    /\ resp' = response
    /\ IF ~Finish(call, response).ok /\ Len(requests) < 2
       THEN /\ pc' = "awaiting"
            /\ requests' = Append(requests, requests[Len(requests)])
            /\ UNCHANGED <<client, call, result, tui>>
       ELSE /\ pc' = "done"
            /\ result' = Finish(call, response)
            /\ UNCHANGED <<client, call, requests, tui>>

(* A response arrives and the call runs to its return.                     *)
Deliver(response) ==
    /\ pc = "awaiting"
    /\ pc' = "done"
    /\ resp' = response
    /\ result' = Finish(call, response)
    /\ UNCHANGED <<client, call, requests, tui>>

TrackerRespond ==
    /\ pc = "awaiting"
    /\ call.client = "tracker"
    /\ \E status \in Statuses, total_pages \in HeaderValues,
          total_count \in HeaderValues, body \in TrackerBodies :
          \E retry_after \in (IF status = 429 THEN {Absent, Header(<<"1">>)} ELSE {Absent}) :
              Deliver(Response(status, total_pages, total_count, retry_after, body))

LlmRespond ==
    /\ pc = "awaiting"
    /\ call.client = "llm"
    /\ \E status \in Statuses, retry_after \in HeaderValues, body \in LlmBodies :
          Deliver(Response(status, Absent, Absent, retry_after, body))

(* The caller has its result; a client that exists is free for the next   *)
(* call.                                                                   *)
Return ==
    /\ pc = "done"
    /\ pc' = IF client = NoClient THEN "start" ELSE "idle"
    /\ call' = NoCall
    /\ requests' = <<>>
    /\ resp' = NoResponse
    /\ result' = NoResult
    /\ UNCHANGED <<client, tui>>

(* The client goes out of scope.                                           *)
Drop ==
    /\ pc = "idle"
    /\ pc' = "start"
    /\ client' = NoClient
    /\ UNCHANGED <<call, requests, resp, result, tui>>

Next ==
    \/ FromEnv \/ WithToken \/ LlmFromEnv \/ LlmNew \/ Drop
    \/ Get \/ GetPaginated \/ Post \/ Patch \/ Delete
    \/ GetIssue \/ SearchIssues
    \/ ChatCompletion \/ Complete \/ CompleteWithSystem
    \/ TransportFailure \/ TrackerRespond \/ LlmRespond
    \/ Return

Spec == Init /\ [][Next]_vars

(***************************************************************************)
(* The terminal interface (cli/src/tui).  Two run loops are in the         *)
(* sources: run_app in tui/mod.rs, with one App {mode, input, output}, and *)
(* App::run in tui/app.rs, with a menu and one screen per service, each    *)
(* screen with its own input and output.  Both are modelled; which one     *)
(* runs is fixed at the start.  The Russian texts are written in Latin     *)
(* letters.                                                                *)
(***************************************************************************)
MaxKeys == 5

OutputLimit == 200

Char(c) == [code |-> "Char", c |-> c]
Esc == [code |-> "Esc"]
Enter == [code |-> "Enter"]
Backspace == [code |-> "Backspace"]

KeyCodes == {Char("q"), Char("1"), Char("2"), Char(" "), Esc, Enter, Backspace}

Line(text) == [text |-> text]

(* A push that drains nothing.                                             *)
push_output_unlimited(output, text) == Append(output, text)

(* Vec::push followed by the drain of everything beyond the last 200.      *)
push_output(output, text) ==
    LET pushed == Append(output, text)
    IN  IF Len(pushed) > OutputLimit
        THEN SubSeq(pushed, Len(pushed) - OutputLimit + 1, Len(pushed))
        ELSE pushed

(* String::pop: drops the last character, if there is one.                 *)
pop(input) == IF input = <<>> THEN <<>> ELSE SubSeq(input, 1, Len(input) - 1)

(***************************************************************************)
(* Display of TrackerError and of LlmError: the #[error("...")] text and   *)
(* the value that fills it.                                                *)
(***************************************************************************)
TrackerErrorDisplay(e) ==
    [of |-> e,
     text |-> CASE e.kind = "RequestFailed"   -> "HTTP request failed: {0}"
                [] e.kind = "JsonParseFailed" -> "Failed to parse JSON: {0}"
                [] e.kind = "ApiError"        -> "API error: {status} - {message}"
                [] e.kind = "Unauthorized"    -> "Unauthorized (401): ..."
                [] e.kind = "Forbidden"       -> "Forbidden (403): ..."
                [] e.kind = "NotFound"        -> "Not Found (404): ... {resource}"
                [] e.kind = "ConfigError"     -> "Invalid configuration: {0}"]

LlmErrorDisplay(e) ==
    [of |-> e,
     text |-> CASE e.kind = "RequestFailed"     -> "HTTP request failed: {0}"
                [] e.kind = "JsonParseFailed"   -> "Failed to parse JSON: {0}"
                [] e.kind = "ApiError"          -> "API error: {status} - {message}"
                [] e.kind = "AuthError"         ->
                        "Authentication failed: missing or invalid API key"
                [] e.kind = "RateLimitExceeded" ->
                        "Rate limit exceeded. Retry after: {retry_after:?}"
                [] e.kind = "ConfigError"       -> "Invalid configuration: {0}"
                [] e.kind = "InvalidRequest"    -> "Invalid request: {0}"]

(***************************************************************************)
(* format_issue_output: key, title, the status display or "Neizvesten",    *)
(* the description or "Net opisaniya", and the link.                       *)
(***************************************************************************)
format_issue_output(issue) ==
    LET status == IF /\ IsSome(issue.status)
                     /\ HasKey(issue.status.v, "display")
                     /\ IsJStr(issue.status.v.o.display)
                  THEN issue.status.v.o.display.s ELSE "Neizvesten"
        description == IF IsSome(issue.description) THEN issue.description.v.s
                       ELSE "Net opisaniya"
    IN  [text |-> "Zadacha: {key} Zagolovok: {title} Status: {status} Opisanie: {description} Ssylka: {link}",
         key |-> issue.key.s, title |-> issue.summary.s, status |-> status,
         description |-> description,
         link |-> <<"https://st.yandex-team.ru/", issue.key.s>>]

(***************************************************************************)
(* What a screen shows for a submitted input and for what the call         *)
(* returned (execute_action in tui/mod.rs; command_preview and execute in  *)
(* tui/screens).                                                           *)
(***************************************************************************)
Screens == {"Tracker", "Llm"}

command_preview(screen, input) ==
    IF screen = "Tracker" THEN [text |-> "> tracker issue {input}", input |-> input]
    ELSE [text |-> "> llm ask {input}", input |-> input]

ErrorLine(screen, e) ==
    IF screen = "Tracker"
    THEN [text |-> "Oshibka Tracker: {err}", err |-> TrackerErrorDisplay(e)]
    ELSE [text |-> "Oshibka LLM: {err}", err |-> LlmErrorDisplay(e)]

(* match fetch_tracker_issue(..).await / ask_llm(..).await                 *)
(* { Ok(output) => output, Err(err) => format!("Oshibka ..: {err}") }      *)
response_line(screen, returned) ==
    IF returned.ok THEN returned.v ELSE ErrorLine(screen, returned.e)

(* fetch_tracker_issue after get_issue has returned.                       *)
fetch_tracker_issue_finish(got) ==
    IF got.ok THEN Ok(format_issue_output(got.v)) ELSE got

(* ask_llm after complete has returned.                                    *)
ask_llm_finish(got) ==
    IF got.ok THEN Ok(Line(got.v)) ELSE got

AskModel == "anthropic/claude-3.5-sonnet"

(***************************************************************************)
(* tui/mod.rs: App::new, the match of run_app on the key code, and         *)
(* execute_action up to the call.  A handler returns the new App, whether  *)
(* the loop returns, and the input it submits, if any.                     *)
(***************************************************************************)
Handled(a, quit, submit) == [app |-> a, quit |-> quit, submit |-> submit]

run_app_new ==
    [mode |-> "Menu", input |-> <<>>,
     output |-> <<Line("Dobro pozhalovat v TUI rezhim"),
                  Line("Nazhmite 1 dlya Tracker, 2 dlya LLM, q dlya vyhoda")>>]

execute_action(a) ==
    LET input == Trim(a.input)
    IN  IF input = <<>> THEN Handled(a, FALSE, None)
        ELSE Handled([a EXCEPT !.output = push_output(@, command_preview(a.mode, input))],
                     FALSE, Some([screen |-> a.mode, input |-> input]))

(* 'q' entered into the input of a screen, the loop returning only from    *)
(* the menu.                                                               *)
run_app_key_q_typed(a, code) ==
    IF code = Char("q") /\ a.mode = "Menu" THEN Handled(a, TRUE, None)
    ELSE IF code = Esc
    THEN Handled([a EXCEPT !.mode = "Menu", !.input = <<>>,
                           !.output = push_output(@, Line("Vozvrat v menyu"))],
                 FALSE, None)
    ELSE IF code = Char("1") /\ a.mode = "Menu"
    THEN Handled([a EXCEPT !.mode = "Tracker", !.input = <<>>,
                           !.output = push_output(@, Line("Rezhim Tracker aktivirovan"))],
                 FALSE, None)
    ELSE IF code = Char("2") /\ a.mode = "Menu"
    THEN Handled([a EXCEPT !.mode = "Llm", !.input = <<>>,
                           !.output = push_output(@, Line("Rezhim LLM aktivirovan"))],
                 FALSE, None)
    ELSE IF code = Backspace /\ a.mode # "Menu"
    THEN Handled([a EXCEPT !.input = pop(@)], FALSE, None)
    ELSE IF code.code = "Char" /\ a.mode # "Menu"
    THEN Handled([a EXCEPT !.input = Append(@, code.c)], FALSE, None)
    ELSE IF code = Enter /\ a.mode # "Menu"
    THEN execute_action(a)
    ELSE Handled(a, FALSE, None)

run_app_key(a, code) ==
    IF code = Char("q") THEN Handled(a, TRUE, None)
    ELSE IF code = Esc
    THEN Handled([a EXCEPT !.mode = "Menu", !.input = <<>>,
                           !.output = push_output(@, Line("Vozvrat v menyu"))],
                 FALSE, None)
    ELSE IF code = Char("1") /\ a.mode = "Menu"
    THEN Handled([a EXCEPT !.mode = "Tracker", !.input = <<>>,
                           !.output = push_output(@, Line("Rezhim Tracker aktivirovan"))],
                 FALSE, None)
    ELSE IF code = Char("2") /\ a.mode = "Menu"
    THEN Handled([a EXCEPT !.mode = "Llm", !.input = <<>>,
                           !.output = push_output(@, Line("Rezhim LLM aktivirovan"))],
                 FALSE, None)
    ELSE IF code = Backspace /\ a.mode # "Menu"
    THEN Handled([a EXCEPT !.input = pop(@)], FALSE, None)
    ELSE IF code.code = "Char" /\ a.mode # "Menu"
    THEN Handled([a EXCEPT !.input = Append(@, code.c)], FALSE, None)
    ELSE IF code = Enter /\ a.mode # "Menu"
    THEN execute_action(a)
    ELSE Handled(a, FALSE, None)

(* execute_action after the call: the line of the response, then           *)
(* app.input.clear().                                                      *)
run_app_returned(a, returned) ==
    [a EXCEPT !.output = push_output(@, response_line(a.mode, returned)),
              !.input = <<>>]

(***************************************************************************)
(* tui/app.rs with tui/menu.rs and tui/screens: App::new,                  *)
(* handle_global_key, Menu::handle_key, Screen::handle_key and handle_key  *)
(* up to the call.                                                         *)
(***************************************************************************)
ViewMenu == [view |-> "Menu"]
ViewScreen(id) == [view |-> "Screen", id |-> id]

ScreenField == [Tracker |-> "tracker", Llm |-> "llm"]

TrackerScreenNew ==
    [input |-> <<>>, output |-> <<Line("Rezhim Tracker aktivirovan")>>]

LlmScreenNew ==
    [input |-> <<>>, output |-> <<Line("Rezhim LLM aktivirovan")>>]

MenuNew ==
    [lines |-> <<Line("Dobro pozhalovat v TUI rezhim"),
                 Line("Nazhmite 1 dlya Tracker, 2 dlya LLM, q dlya vyhoda")>>]

App_new ==
    [active_view |-> ViewMenu, menu |-> MenuNew,
     tracker |-> TrackerScreenNew, llm |-> LlmScreenNew]

(* [quits, the App after the key] *)
handle_global_key(a, code) ==
    IF code = Char("q") THEN [quit |-> TRUE, app |-> a]
    ELSE IF code = Esc THEN [quit |-> FALSE, app |-> [a EXCEPT !.active_view = ViewMenu]]
    ELSE [quit |-> FALSE, app |-> a]

(* A dispatch table with its two entries exchanged.                        *)
Menu_handle_key_exchanged(code) ==
    IF code = Char("1") THEN Some("Llm")
    ELSE IF code = Char("2") THEN Some("Tracker")
    ELSE None

Menu_handle_key(code) ==
    IF code = Char("1") THEN Some("Tracker")
    ELSE IF code = Char("2") THEN Some("Llm")
    ELSE None

(* A screen whose Enter empties an input that is blank.                    *)
Screen_handle_key_clearing_blank(screen, code) ==
    IF code = Backspace
    THEN [screen |-> [screen EXCEPT !.input = pop(@)], submit |-> None]
    ELSE IF code.code = "Char"
    THEN [screen |-> [screen EXCEPT !.input = Append(@, code.c)], submit |-> None]
    ELSE IF code = Enter
    THEN LET input == Trim(screen.input)
         IN  IF input = <<>>
             THEN [screen |-> [screen EXCEPT !.input = <<>>], submit |-> None]
             ELSE [screen |-> [screen EXCEPT !.input = <<>>], submit |-> Some(input)]
    ELSE [screen |-> screen, submit |-> None]

(* [the screen after the key, the submitted input if any] *)
Screen_handle_key(screen, code) ==
    IF code = Backspace
    THEN [screen |-> [screen EXCEPT !.input = pop(@)], submit |-> None]
    ELSE IF code.code = "Char"
    THEN [screen |-> [screen EXCEPT !.input = Append(@, code.c)], submit |-> None]
    ELSE IF code = Enter
    THEN LET input == Trim(screen.input)
         IN  IF input = <<>> THEN [screen |-> screen, submit |-> None]
             ELSE [screen |-> [screen EXCEPT !.input = <<>>], submit |-> Some(input)]
    ELSE [screen |-> screen, submit |-> None]

(* A submit that executes without pushing the preview of its command.      *)
handle_key_without_preview(a, code) ==
    IF a.active_view = ViewMenu
    THEN LET action == Menu_handle_key(code)
         IN  IF IsSome(action)
             THEN Handled([a EXCEPT !.active_view = ViewScreen(action.v)], FALSE, None)
             ELSE Handled(a, FALSE, None)
    ELSE LET screen_id == a.active_view.id
             f == ScreenField[screen_id]
             event == Screen_handle_key(a[f], code)
         IN  IF IsSome(event.submit)
             THEN Handled([a EXCEPT ![f] = event.screen], FALSE,
                          Some([screen |-> screen_id, input |-> event.submit.v]))
             ELSE Handled([a EXCEPT ![f] = event.screen], FALSE, None)

handle_key(a, code) ==
    IF a.active_view = ViewMenu
    THEN LET action == Menu_handle_key(code)
         IN  IF IsSome(action)
             THEN Handled([a EXCEPT !.active_view = ViewScreen(action.v)], FALSE, None)
             ELSE Handled(a, FALSE, None)
    ELSE LET screen_id == a.active_view.id
             f == ScreenField[screen_id]
             event == Screen_handle_key(a[f], code)
         IN  IF IsSome(event.submit)
             THEN Handled([a EXCEPT ![f] =
                              [event.screen EXCEPT !.output =
                                  push_output(@, command_preview(screen_id, event.submit.v))]],
                          FALSE,
                          Some([screen |-> screen_id, input |-> event.submit.v]))
             ELSE Handled([a EXCEPT ![f] = event.screen], FALSE, None)

App_key(a, code) ==
    LET global == handle_global_key(a, code)
    IN  IF global.quit THEN Handled(a, TRUE, None)
        ELSE handle_key(global.app, code)

(* handle_key after execute has returned: the response is pushed to the    *)
(* screen that submitted.                                                  *)
App_returned(a, screen_id, returned) ==
    [a EXCEPT ![ScreenField[screen_id]].output =
                  push_output(@, response_line(screen_id, returned))]

(***************************************************************************)
(* The run loop of either implementation.                                  *)
(***************************************************************************)
IsRunApp(a) == "mode" \in DOMAIN a

key_handled(a, code) == IF IsRunApp(a) THEN run_app_key(a, code) ELSE App_key(a, code)

call_returned(a, screen_id, returned) ==
    IF IsRunApp(a) THEN run_app_returned(a, returned)
    ELSE App_returned(a, screen_id, returned)

(* A loop that goes on reading events while a call is awaited.             *)
ReadsEventsWhileAwaiting == pc \in {"poll", "awaiting"}

(* The loop reads events only between two handlers.                        *)
ReadsEvents == pc = "poll"

TuiInit ==
    /\ pc = "poll"
    /\ client = NoClient
    /\ call = NoCall
    /\ requests = <<>>
    /\ resp = NoResponse
    /\ result = NoResult
    /\ app \in {run_app_new, App_new}
    /\ events = <<>>
    /\ handled = 0

(* The user presses a key; the terminal queues it.                         *)
KeyPress ==
    /\ pc # "ended"
    /\ handled + Len(events) < MaxKeys
    /\ \E code \in KeyCodes : events' = Append(events, code)
    /\ UNCHANGED <<pc, client, call, requests, resp, result, app, handled>>

(* The call of a submit: the client is built from the environment; an      *)
(* environment that gives no client ends the call at once.                 *)
Launch(a, submit) ==
    \E tracker_token \in TrackerTokenValues, work_proxy \in WorkProxyValues,
       open_router_token \in OpenRouterTokenValues :
        LET config == LlmConfigNew(AskModel, open_router_token)
            built == IF submit.screen = "Tracker"
                     THEN from_env(tracker_token, work_proxy)
                     ELSE IF config.ok THEN LlmClientNew(config.v) ELSE config
        IN  /\ call' = [client |-> IF submit.screen = "Tracker" THEN "tracker" ELSE "llm",
                        op |-> IF submit.screen = "Tracker" THEN "get_issue" ELSE "complete",
                        screen |-> submit.screen, input |-> submit.input]
            /\ requests' = <<>>
            /\ resp' = NoResponse
            /\ IF built.ok
               THEN /\ pc' = "execute"
                    /\ client' = built.v
                    /\ result' = NoResult
                    /\ app' = a
               ELSE /\ pc' = "poll"
                    /\ client' = NoClient
                    /\ result' = built
                    /\ app' = call_returned(a, submit.screen, built)

(* One turn of the loop that finds a key press: the match on its code.     *)
HandleKey ==
    /\ ReadsEvents
    /\ events # <<>>
    /\ events' = Tail(events)
    /\ handled' = handled + 1
    /\ LET after == key_handled(app, Head(events))
       IN  IF after.quit
           THEN /\ pc' = "ended"
                /\ app' = after.app
                /\ UNCHANGED <<client, call, requests, resp, result>>
           ELSE IF IsSome(after.submit)
           THEN Launch(after.app, after.submit.v)
           ELSE /\ app' = after.app
                /\ UNCHANGED <<pc, client, call, requests, resp, result>>

(* client.get_issue(issue_id, None) / client.complete(prompt): the request *)
(* goes out and the handler waits.                                         *)
TuiSend ==
    /\ pc = "execute"
    /\ pc' = "awaiting"
    /\ requests' = <<IF call.screen = "Tracker"
                     THEN get_issue_request(call.input, None)
                     ELSE chat_completion_request(<<Message("user", call.input)>>, None)>>
    /\ UNCHANGED <<client, call, resp, result, tui>>

(* A handler that returns the error of the call with `?`: the loop ends.   *)
TuiReturnPropagating(returned) ==
    /\ pc = "awaiting"
    /\ pc' = IF returned.ok THEN "poll" ELSE "ended"
    /\ client' = NoClient
    /\ requests' = <<>>
    /\ result' = returned
    /\ app' = IF returned.ok THEN call_returned(app, call.screen, returned) ELSE app
    /\ UNCHANGED <<call, resp, events, handled>>

(* The awaited call returns; the handler pushes its line and the loop      *)
(* reads events again.  The client of the call is dropped.                 *)
TuiReturn(returned) ==
    /\ pc = "awaiting"
    /\ pc' = "poll"
    /\ client' = NoClient
    /\ requests' = <<>>
    /\ result' = returned
    /\ app' = call_returned(app, call.screen, returned)
    /\ UNCHANGED <<call, resp, events, handled>>

TuiTransportFailure ==
    /\ pc = "awaiting"
    /\ TuiReturn(Err(RequestFailed))

(* The timeout of the client, when it has one, ends the wait with a        *)
(* transport error.                                                        *)
TuiTimeout ==
    /\ pc = "awaiting"
    /\ IsSome(client.timeout)
    /\ TuiReturn(Err(RequestFailed))

(* The answers the remote side gives to the calls of the interface.        *)
TuiStatuses == {200, 401, 404, 429, 500}

TuiTrackerBodies == {Text("not json"), JsonText(IssueMinimal), JsonText(IssueInProgress)}

TuiLlmBodies ==
    {Text("not json"), JsonText(CompletionJson(<<>>)),
     JsonText(CompletionJson(<<ChoiceJson(0, "first")>>))}

TuiTrackerRespond ==
    /\ pc = "awaiting"
    /\ call.client = "tracker"
    /\ \E status \in TuiStatuses, body \in TuiTrackerBodies :
          TuiReturn(fetch_tracker_issue_finish(
              Finish(call, Response(status, Absent, Absent, Absent, body))))

TuiLlmRespond ==
    /\ pc = "awaiting"
    /\ call.client = "llm"
    /\ \E status \in TuiStatuses, body \in TuiLlmBodies :
          TuiReturn(ask_llm_finish(
              Finish(call, Response(status, Absent, Absent, Absent, body))))

TuiNext ==
    \/ KeyPress \/ HandleKey \/ TuiSend
    \/ TuiTransportFailure \/ TuiTimeout \/ TuiTrackerRespond \/ TuiLlmRespond

TuiSpec == TuiInit /\ [][TuiNext]_vars

(* The interface with what its scheduling guarantees: the handler goes on  *)
(* to send its request, and a timeout that is set fires.  The remote side  *)
(* is free never to answer.                                                *)
TuiLiveSpec == TuiSpec /\ WF_vars(TuiSend) /\ WF_vars(TuiTimeout)

(***************************************************************************)
(* push_output on its own: an output buffer of any length the interface    *)
(* can hold, with its lines numbered from the oldest, and a few pushes of  *)
(* further lines.  call holds the push and handled counts the pushes.      *)
(***************************************************************************)
MaxPushes == 3

PushTexts == {Line(0), Line(-1)}

PushInit ==
    /\ pc = "push"
    /\ client = NoClient
    /\ call = NoCall
    /\ requests = <<>>
    /\ resp = NoResponse
    /\ result = NoResult
    /\ \E n \in 1..OutputLimit : app = [output |-> [i \in 1..n |-> Line(i)]]
    /\ events = <<>>
    /\ handled = 0

Push ==
    /\ pc = "push"
    /\ handled < MaxPushes
    /\ \E text \in PushTexts :
        /\ call' = [client |-> "none", op |-> "push_output", text |-> text]
        /\ app' = [output |-> push_output(app.output, text)]
    /\ handled' = handled + 1
    /\ UNCHANGED <<pc, client, requests, resp, result, events>>

PushNext == Push

PushSpec == PushInit /\ [][PushNext]_vars

(***************************************************************************)
(* The command line (cli/src/llm.rs): the Ask and PlanDay subcommands.     *)
(* An error that leaves a command carries the context it was given         *)
(* (anyhow::Context).                                                      *)
(***************************************************************************)
Context(message, e) == [kind |-> "Context", message |-> message, source |-> e]

with_context(returned, message) ==
    IF returned.ok THEN returned ELSE Err(Context(message, returned.e))

(* create_client: the configuration is built around OPEN_ROUTER_TOKEN and  *)
(* the model, with the default model when none is given.                   *)
create_client(model, open_router_token) ==
    LET api_key == env_var(open_router_token)
    IN  IF ~api_key.ok
        THEN Err(Context("OPEN_ROUTER_TOKEN environment variable not set", api_key.e))
        ELSE LlmClientNew(
                [LlmConfigOf(api_key.v, IF IsSome(model) THEN model.v ELSE AskModel)
                    EXCEPT !.site_url = Some("https://github.com/yourusername/you"),
                           !.app_name = Some("you-cli")])

(* Ask: chat_completion with both options when both are given, complete    *)
(* with no options otherwise.                                              *)
ask_request(prompt, temperature, max_tokens) ==
    IF IsSome(temperature) /\ IsSome(max_tokens)
    THEN chat_completion_request(
            <<Message("user", prompt)>>,
            Some([DefaultCompletionOptions EXCEPT !.temperature = temperature,
                                                  !.max_tokens = max_tokens]))
    ELSE chat_completion_request(<<Message("user", prompt)>>, None)

ask_finish(response, temperature, max_tokens) ==
    IF IsSome(temperature) /\ IsSome(max_tokens)
    THEN LET completion == chat_completion_finish(response)
         IN  IF ~completion.ok THEN completion
             ELSE IF IsSome(content(completion.v)) THEN Ok(content(completion.v).v)
             ELSE Err(Context("No content in response", [kind |-> "None"]))
    ELSE complete_finish(chat_completion_finish(response))

(***************************************************************************)
(* plan_day: the search it sends, the task list it makes of the issues     *)
(* returned, and the prompt around the list.                               *)
(***************************************************************************)
plan_day_search == search_issues_request(DefaultSearchRequest, None)

task_line(issue) ==
    [text |-> "- {key} ({status_display}): {summary}",
     key |-> issue.key.s,
     status_display |->
        IF /\ IsSome(issue.status)
           /\ HasKey(issue.status.v, "display")
           /\ IsJStr(issue.status.v.o.display)
        THEN issue.status.v.o.display.s ELSE "Unknown",
     summary |-> issue.summary.s]

task_list(issues) == [i \in 1..Len(issues) |-> task_line(issues[i])]

PlanSystemPrompt == "Ty - opytnyj menedzher proektov, pomogayushchij planirovat rabochij den"

plan_prompt(tasks) ==
    [text |-> "Na osnove sleduyushchih zadach, sostav strukturirovannyj plan raboty na den: {task_list} ...",
     task_list |-> tasks]

(***************************************************************************)
(* The issues of the remote tracker, and what it returns for a search: the *)
(* open ones when the request asks for open issues, any of them otherwise. *)
(***************************************************************************)
IssueOpen ==
    JObj([key |-> JStr("TEST-1"), summary |-> JStr("Open task"),
          status |-> JObj([key |-> JStr("open"), display |-> JStr("Open")])])

IssueClosed ==
    JObj([key |-> JStr("TEST-2"), summary |-> JStr("Closed task"),
          status |-> JObj([key |-> JStr("closed"), display |-> JStr("Closed")])])

AsksForOpen(request) ==
    /\ IsSome(request.body)
    /\ HasKey(request.body.v, "filter")
    /\ request.body.v.o["filter"] = JObj([status |-> JStr("open")])

SearchAnswers(request) ==
    IF AsksForOpen(request) THEN {<<>>, <<IssueOpen>>}
    ELSE {<<>>, <<IssueOpen>>, <<IssueClosed>>, <<IssueOpen, IssueClosed>>}

CliModels == {None, Some("model")}
CliTemperatures == {None, Some(F32(1))}
CliMaxTokens == {None, Some(U32(100))}
CliStatuses == {200, 401, 500}

(***************************************************************************)
(* One run of a command.                                                   *)
(***************************************************************************)
CliInit ==
    /\ pc = "cli"
    /\ client = NoClient
    /\ call = NoCall
    /\ requests = <<>>
    /\ resp = NoResponse
    /\ result = NoResult
    /\ app = NoApp
    /\ events = <<>>
    /\ handled = 0

(* The command starts with the client `built`; without one it returns.     *)
CliStart(c, built) ==
    /\ pc = "cli"
    /\ call' = c
    /\ IF built.ok
       THEN /\ pc' = "execute"
            /\ client' = built.v
            /\ result' = NoResult
       ELSE /\ pc' = "exit"
            /\ client' = NoClient
            /\ result' = built
    /\ UNCHANGED <<requests, resp, tui>>

CliAsk ==
    /\ pc = "cli"
    /\ \E prompt \in Prompts, model \in CliModels, temperature \in CliTemperatures,
          max_tokens \in CliMaxTokens, open_router_token \in OpenRouterTokenValues :
        CliStart([client |-> "llm", op |-> "ask", phase |-> "ask", prompt |-> prompt,
                  model |-> model, temperature |-> temperature,
                  max_tokens |-> max_tokens],
                 create_client(model, open_router_token))

CliPlanDay ==
    /\ pc = "cli"
    /\ \E model \in CliModels, tracker_token \in TrackerTokenValues,
          work_proxy \in WorkProxyValues :
        CliStart([client |-> "tracker", op |-> "plan_day", phase |-> "search",
                  model |-> model],
                 with_context(from_env(tracker_token, work_proxy),
                              "Failed to create tracker client. Make sure TRACKER_TOKEN is set"))

(* The request of the current phase goes out.                              *)
CliSend ==
    /\ pc = "execute"
    /\ pc' = "awaiting"
    /\ requests' = Append(requests,
            CASE call.phase = "ask" ->
                    ask_request(call.prompt, call.temperature, call.max_tokens)
              [] call.phase = "search" -> plan_day_search
              [] call.phase = "plan" ->
                    chat_completion_request(
                        <<Message("system", PlanSystemPrompt),
                          Message("user", call.prompt)>>, None))
    /\ UNCHANGED <<client, call, resp, result, tui>>

CliExit(returned) ==
    /\ pc' = "exit"
    /\ client' = NoClient
    /\ result' = returned
    /\ UNCHANGED <<call, requests, resp, tui>>

CliTransportFailure ==
    /\ pc = "awaiting"
    /\ CliExit(IF call.phase = "ask" THEN Err(RequestFailed)
               ELSE with_context(Err(RequestFailed),
                        IF call.phase = "search"
                        THEN "Failed to fetch issues from tracker"
                        ELSE "Failed to generate plan"))

CliLlmRespond ==
    /\ pc = "awaiting"
    /\ call.client = "llm"
    /\ \E status \in CliStatuses, body \in TuiLlmBodies :
        LET response == Response(status, Absent, Absent, Absent, body)
        IN  CliExit(IF call.phase = "ask"
                    THEN ask_finish(response, call.temperature, call.max_tokens)
                    ELSE with_context(complete_finish(chat_completion_finish(response)),
                                      "Failed to generate plan"))

(* The search of plan_day returns: no issue ends the command, otherwise    *)
(* the LLM client is created for the prompt made of the issues.            *)
CliSearchRespond ==
    /\ pc = "awaiting"
    /\ call.phase = "search"
    /\ \E status \in CliStatuses, answer \in SearchAnswers(requests[1]),
          open_router_token \in OpenRouterTokenValues :
        LET response == Response(status, Absent, Absent, Absent, JsonText(JArr(answer)))
            issues == with_context(search_issues_finish(handle_response(response)),
                                   "Failed to fetch issues from tracker")
            built == create_client(call.model, open_router_token)
        IN  IF ~issues.ok THEN CliExit(issues)
            ELSE IF issues.v = <<>> THEN CliExit(Ok("Net zadach dlya planirovaniya"))
            ELSE IF ~built.ok THEN CliExit(built)
            ELSE /\ pc' = "execute"
                 /\ client' = built.v
                 /\ call' = [client |-> "llm", op |-> "plan_day", phase |-> "plan",
                             model |-> call.model,
                             prompt |-> plan_prompt(task_list(issues.v))]
                 /\ UNCHANGED <<requests, resp, result, tui>>

CliNext ==
    \/ CliAsk \/ CliPlanDay \/ CliSend
    \/ CliTransportFailure \/ CliLlmRespond \/ CliSearchRespond

CliSpec == CliInit /\ [][CliNext]_vars

(***************************************************************************)
(* Properties.                                                             *)
(***************************************************************************)
Done == pc = "done"
Answered == pc = "done" /\ resp.arrived
TrackerGeneric == {"get", "get_paginated", "post", "patch", "delete"}
StartsWithSlash(p) == p # <<>> /\ Head(p) = "/"
TheRequest == requests[1]

(* The full URL of a resource path: base_url, api_version and the path, joined by "/". *)
ExpectedUrl(p) ==
    TrackerConfig.base_url \o <<"/">> \o TrackerConfig.api_version \o <<"/">> \o p

(* Decimal numerals, from the number to its text. *)
DigitChars == <<"0", "1", "2", "3", "4", "5", "6", "7", "8", "9">>

RECURSIVE RenderDecimal(_)
RenderDecimal(n) ==
    IF n < 10 THEN <<DigitChars[n + 1]>>
    ELSE RenderDecimal(n \div 10) \o <<DigitChars[(n % 10) + 1]>>

RECURSIVE StripLeadingZeros(_)
StripLeadingZeros(ds) ==
    IF Len(ds) > 1 /\ Head(ds) = "0" THEN StripLeadingZeros(Tail(ds)) ELSE ds

RECURSIVE Pow10(_)
Pow10(k) == IF k = 0 THEN 1 ELSE 10 * Pow10(k - 1)

HeaderNumbers == 0..(Pow10(MaxHeaderLen) - 1)

(* The header value s is the text of the unsigned integer n. *)
ParsesAs(s, n) ==
    LET ds == IF s # <<>> /\ Head(s) = "+" THEN Tail(s) ELSE s
    IN  ds # <<>> /\ StripLeadingZeros(ds) = RenderDecimal(n)

Numeric(h) == h.present /\ \E n \in HeaderNumbers : ParsesAs(h.s, n)

(* Some(n) for a header that is the text of n, None otherwise. *)
NumberOf(h) ==
    IF Numeric(h) THEN Some(CHOOSE n \in HeaderNumbers : ParsesAs(h.s, n)) ELSE None

(* C1: for a resource path p that does not start with '/', the tracker    *)
(* client addresses p and "/" + p at the same URL,                         *)
(* base_url + "/" + api_version + "/" + p.                                 *)
C1_LeadingSlashSameUrl ==
    (call.op \in TrackerOps) =>
        /\ ~StartsWithSlash(call.path) => TheRequest.url = ExpectedUrl(call.path)
        /\ (StartsWithSlash(call.path) /\ ~StartsWithSlash(Tail(call.path))) =>
                TheRequest.url = ExpectedUrl(Tail(call.path))

C1_Witness ==
    /\ pc = "awaiting" /\ call.op = "get" /\ call.path = <<"/", "a">>
    /\ TheRequest.url = ExpectedUrl(<<"a">>)

(* C2: a response with status 401 yields the authentication failure       *)
(* (Unauthorized from every tracker method, AuthError from the LLM         *)
(* methods), whatever its body and headers.                                *)
C2_UnauthorizedOn401 ==
    (Answered /\ resp.status = 401) =>
        result = Err(IF call.client = "tracker" THEN Unauthorized ELSE AuthError)

C2_Witness ==
    /\ Answered /\ resp.status = 401 /\ call.op = "get_issue"
    /\ resp.body = JsonText(IssueMinimal) /\ resp.headers.total_count.present
    /\ result = Err(Unauthorized)

(* C3: a tracker response with status 404 yields NotFound whose resource  *)
(* is the body text as Response::text() read it, for every body.           *)
C3_NotFoundCarriesBody ==
    (Answered /\ call.client = "tracker" /\ resp.status = 404) =>
        /\ ~result.ok
        /\ result.e.kind = "NotFound"
        /\ resp.body # ReadFailed => result.e.resource = resp.body

C3_Witness ==
    /\ Answered /\ call.op = "get_issue" /\ resp.status = 404
    /\ resp.body = Text("not json")
    /\ result = Err(NotFound(Text("not json")))

(* C4: the tracker client classifies a non-2xx status other than 401 and  *)
(* 404 by the status alone: 403 is Forbidden, every other one (429 and    *)
(* 5xx included) is ApiError with that status and the raw body; every     *)
(* status leads to a returned value.                                       *)
C4_OtherStatusesByStatusAlone ==
    (Answered /\ call.client = "tracker" /\ ~is_success(resp.status)
        /\ resp.status \notin {401, 404}) =>
        /\ ~result.ok
        /\ resp.status = 403 => result.e = Forbidden
        /\ resp.status # 403 =>
            /\ result.e.kind = "ApiError"
            /\ result.e.status = resp.status
            /\ resp.body # ReadFailed => result.e.message = resp.body

C4_Witness ==
    /\ Answered /\ call.op = "get" /\ resp.status = 429
    /\ resp.headers.retry_after.present
    /\ result = Err(ApiError(429, JsonText(IssueMinimal)))

(* C5: a 429 response to the LLM client yields RateLimitExceeded whose    *)
(* retry_after is Some(n) when the retry-after header is present and is   *)
(* the text of an unsigned integer n, and None when the header is absent  *)
(* or is not such a text.                                                  *)
C5_RetryAfterParsed ==
    (Answered /\ call.client = "llm" /\ resp.status = 429) =>
        result = Err(RateLimitExceeded(NumberOf(resp.headers.retry_after)))

C5_Witness ==
    /\ Answered /\ call.op = "chat_completion" /\ resp.status = 429
    /\ resp.headers.retry_after = Header(<<"1">>)
    /\ result = Err(RateLimitExceeded(Some(1)))

C7_Every2xxIsSuccess ==
    (Answered /\ is_success(resp.status) /\ resp.body.t = "json") =>
        /\ call.op \in TrackerGeneric =>
            (result.ok /\ result.v.value = resp.body.v)
        /\ (call.op = "chat_completion" /\ CompletionFromValue(resp.body.v).ok) =>
            result = CompletionFromValue(resp.body.v)

(* The body is {"error": {"message": <string>, ...}}. *)
IsEnvelope(body) ==
    /\ body.t = "json"
    /\ HasKey(body.v, "error")
    /\ HasKey(body.v.o.error, "message")
    /\ IsJStr(body.v.o.error.o.message)

(* C8 as stated: a non-2xx response to chat_completion other than 401 and *)
(* 429 yields ApiError with the response's status and a message that is   *)
(* error.message whenever the body is an envelope {error:{message,...}},  *)
(* and the raw body text otherwise.                                        *)
C8_EnvelopeMessageExtracted ==
    (Answered /\ call.client = "llm" /\ ~is_success(resp.status)
        /\ resp.status \notin {401, 429} /\ resp.body # ReadFailed) =>
        result = Err(ApiError(resp.status,
                              IF IsEnvelope(resp.body)
                              THEN Text(resp.body.v.o.error.o.message.s)
                              ELSE resp.body))

(* C9 as stated: on a successful tracker response the pagination metadata *)
(* is None exactly when the response carries neither X-Total-Pages nor    *)
(* X-Total-Count.                                                          *)
C9_MetaNoneIffNoHeader ==
    (Answered /\ call.op \in TrackerGeneric /\ result.ok) =>
        (result.v.meta = None <=>
            (~resp.headers.total_pages.present /\ ~resp.headers.total_count.present))

(* C9, amended: the metadata is None exactly when neither header is the   *)
(* text of an unsigned integer, and otherwise is Some with each field the *)
(* number its header states, or None for a header that is missing or is   *)
(* not such a text.                                                        *)
C9_MetaFromNumericHeaders ==
    (Answered /\ call.op \in TrackerGeneric /\ result.ok) =>
        result.v.meta =
            IF Numeric(resp.headers.total_pages) \/ Numeric(resp.headers.total_count)
            THEN Some([total_pages |-> NumberOf(resp.headers.total_pages),
                       total_count |-> NumberOf(resp.headers.total_count)])
            ELSE None

C9_Witness ==
    /\ Answered /\ call.op = "get_paginated" /\ resp.status = 200
    /\ resp.headers.total_pages = Absent
    /\ resp.headers.total_count = Header(<<"1">>)
    /\ result.ok
    /\ result.v.meta = Some([total_pages |-> None, total_count |-> Some(1)])

(* C10: every client call sends at most one HTTP request: while it waits  *)
(* exactly one has been sent, and once it has returned, with whatever      *)
(* outcome, still at most one.                                             *)
C10_AtMostOneRequest ==
    /\ Len(requests) <= 1
    /\ pc = "awaiting" => Len(requests) = 1
    /\ (Done /\ resp # NoResponse) => Len(requests) = 1

C10_Witness ==
    /\ Done /\ call.op = "search_issues" /\ resp.arrived /\ resp.status = 500
    /\ ~result.ok /\ Len(requests) = 1

(* C11: a client sourced from the environment is never constructed        *)
(* without a credential: from_env with TRACKER_TOKEN not set, and          *)
(* LlmConfig::new with OPEN_ROUTER_TOKEN not set, return ConfigError,      *)
(* leave no client and send nothing; a constructor that returned a client  *)
(* gave it the value the variable is set to, and every request that is     *)
(* sent carries the token of the client that sent it.                      *)
C11_NoClientWithoutCredential ==
    /\ (Done /\ call.op = "from_env") =>
        /\ ~call.env.TRACKER_TOKEN.set =>
            (~result.ok /\ result.e.kind = "ConfigError"
                /\ client = NoClient /\ requests = <<>>)
        /\ result.ok =>
            (call.env.TRACKER_TOKEN.set
                /\ client.config.oauth_token = call.env.TRACKER_TOKEN.s)
    /\ (Done /\ call.op = "LlmConfig::new") =>
        /\ ~call.env.OPEN_ROUTER_TOKEN.set =>
            (~result.ok /\ result.e.kind = "ConfigError"
                /\ client = NoClient /\ requests = <<>>)
        /\ result.ok =>
            (call.env.OPEN_ROUTER_TOKEN.set
                /\ client.config.api_key = call.env.OPEN_ROUTER_TOKEN.s)
    /\ client = NoClient => requests = <<>>
    /\ requests # <<>> =>
        TheRequest.authorization =
            IF client.kind = "tracker" THEN <<"OAuth ", client.config.oauth_token>>
            ELSE <<"Bearer ", client.config.api_key>>

C11_Witness ==
    /\ Done /\ call.op = "from_env"
    /\ call.env.TRACKER_TOKEN = NotPresent /\ call.env.WORK_PROXY = NotPresent
    /\ result = Err(ConfigError("TRACKER_TOKEN is not set"))
    /\ client = NoClient /\ requests = <<>>

(* The fields of a request record that are set, and a value that has no   *)
(* JSON of its own kind: a float that is not finite, a JSON null.          *)
SetFields(rec) == {f \in DOMAIN rec : IsSome(rec[f])}
WrittenAsNull(x) == (x.t = "f32" /\ ~x.finite) \/ x.t = "null"
OptionFieldsOf(body) == DOMAIN body \ {"model", "messages"}

ExpectedMinimalIssue(key, summary) ==
    [key |-> JStr(key), summary |-> JStr(summary),
     votes |-> JNum(0), favorite |-> JBool(FALSE),
     tags |-> JArr(<<>>), aliases |-> JArr(<<>>), sprint |-> JArr(<<>>),
     followers |-> JArr(<<>>),
     self_link |-> None, id |-> None, version |-> None,
     last_comment_updated_at |-> None, parent |-> None, updated_by |-> None,
     description |-> None, issue_type |-> None, priority |-> None,
     created_at |-> None, created_by |-> None, assignee |-> None,
     project |-> None, queue |-> None, updated_at |-> None, status |-> None,
     previous_status |-> None]

(* C13: get_issue on a 2xx response whose JSON has only key and summary   *)
(* yields an Issue with votes 0, favorite false, empty tags, aliases,      *)
(* sprint and followers and every optional field, status included,         *)
(* absent; a response without key or without summary yields no Issue.      *)
C13_MinimalIssueDecodes ==
    (Answered /\ call.op = "get_issue" /\ is_success(resp.status)
        /\ resp.body.t = "json") =>
        LET v == resp.body.v
        IN  /\ (v.t = "obj" /\ DOMAIN v.o = {"key", "summary"}
                    /\ IsJStr(v.o.key) /\ IsJStr(v.o.summary)) =>
                    result = Ok(ExpectedMinimalIssue(v.o.key.s, v.o.summary.s))
            /\ (~HasKey(v, "key") \/ ~HasKey(v, "summary")) => ~result.ok

C13_Witness ==
    /\ Answered /\ call.op = "get_issue" /\ resp.status = 200
    /\ resp.body = JsonText(IssueMinimal)
    /\ result.ok /\ result.v.votes = JNum(0) /\ result.v.status = None
    /\ result.v.key = JStr("TEST-1")

(* The JSON of one message of a completion request. *)
MessageJson(role, text) == JObj([role |-> JStr(role), content |-> JStr(text)])

(* C14: complete(prompt) sends exactly one message, the user's prompt, and *)
(* complete_with_system sends the system message followed by the user      *)
(* message; on success (a 200 response that is a completion) each returns  *)
(* exactly the content of the first choice, whatever choices follow, and   *)
(* InvalidRequest("No content in response") when there is no choice.       *)
C14_CompleteFirstChoice ==
    /\ (call.op = "complete" /\ requests # <<>>) =>
        TheRequest.body.v.o["messages"] =
            JArr(<<MessageJson("user", call.args.prompt)>>)
    /\ (call.op = "complete_with_system" /\ requests # <<>>) =>
        TheRequest.body.v.o["messages"] =
            JArr(<<MessageJson("system", call.args.system_prompt),
                   MessageJson("user", call.args.user_prompt)>>)
    /\ (Answered /\ call.op \in {"complete", "complete_with_system"}
            /\ resp.status = 200 /\ resp.body.t = "json"
            /\ CompletionFromValue(resp.body.v).ok) =>
        LET choices == resp.body.v.o.choices.a
        IN  IF choices = <<>>
            THEN result = Err(InvalidRequest("No content in response"))
            ELSE result = Ok(choices[1].o.message.o.content.s)

C14_Witness ==
    /\ Answered /\ call.op = "complete_with_system" /\ resp.status = 200
    /\ resp.body = JsonText(CompletionJson(<<ChoiceJson(0, "first"),
                                             ChoiceJson(1, "second")>>))
    /\ result = Ok("first")

(* The query-string names of the expand fields, and a value that is the    *)
(* given names in their order with a comma between neighbours.             *)
ExpandName == [Transitions |-> "transitions", Attachments |-> "attachments"]

IsCommaJoined(value, fields) ==
    /\ Len(value) = 2 * Len(fields) - 1
    /\ \A i \in 1..Len(fields) : value[2 * i - 1] = ExpandName[fields[i]]
    /\ \A i \in 1..(Len(fields) - 1) : value[2 * i] = ","

ExpandOf(params) == IF IsSome(params) THEN params.v.expand ELSE <<>>
QueryKeys(request) == IF IsSome(request.params) THEN DOMAIN request.params.v ELSE {}

(* C15: get_issue and search_issues send the expand list as the single    *)
(* query parameter "expand", its value the field names joined by commas    *)
(* in the order given; with an empty list or no params they send no        *)
(* expand parameter, and no query at all when nothing else is set.         *)
C15_ExpandCommaJoined ==
    (requests # <<>> /\ call.op \in {"get_issue", "search_issues"}) =>
        LET expand == ExpandOf(call.params)
            others == IF call.op = "search_issues" /\ IsSome(call.params)
                      THEN {f \in DOMAIN SearchParamKeys : IsSome(call.params.v[f])}
                      ELSE {}
        IN  /\ TheRequest.ordered = <<>>
            /\ expand # <<>> =>
                /\ "expand" \in QueryKeys(TheRequest)
                /\ IsCommaJoined(TheRequest.params.v["expand"], expand)
            /\ expand = <<>> =>
                /\ "expand" \notin QueryKeys(TheRequest)
                /\ others = {} => TheRequest.params = None

C15_Witness ==
    /\ pc = "awaiting" /\ call.op = "search_issues"
    /\ ExpandOf(call.params) = <<"Attachments", "Transitions">>
    /\ TheRequest.params = Some([expand |-> <<"attachments", ",", "transitions">>])

(* C16: search_issues never refuses a request because of its filter mode: *)
(* whichever of filter, query and keys are set, none, one or several, it   *)
(* sends one POST to issues/_search whose body holds exactly the fields    *)
(* that are set, and what it returns depends on the remote answer alone.   *)
C16_SearchNotValidatedLocally ==
    (call.op = "search_issues") =>
        /\ Len(requests) = 1
        /\ TheRequest.method = "POST"
        /\ TheRequest.url = ExpectedUrl(StrSearch)
        /\ DOMAIN TheRequest.body.v.o =
                {SearchRequestKeys[f] : f \in SetFields(call.request)}
        /\ Done => resp # NoResponse
        /\ (Done /\ resp = TransportFailed) => result = Err(RequestFailed)
        /\ Answered => result = search_issues_finish(handle_response(resp))

C16_Witness ==
    /\ Answered /\ call.op = "search_issues" /\ resp.status = 200
    /\ IsSome(call.request.filter) /\ IsSome(call.request.query)
    /\ IsSome(call.request.keys)
    /\ DOMAIN TheRequest.body.v.o = {"filter", "query", "keys"}
    /\ result.ok /\ Len(result.v) = 2

(***************************************************************************)
(* The terminal interface seen from outside: the active view, and the      *)
(* input and the output of a screen, in either implementation.             *)
(***************************************************************************)
ViewOf(a) ==
    IF IsRunApp(a) THEN a.mode
    ELSE IF a.active_view = ViewMenu THEN "Menu" ELSE a.active_view.id

InputOf(a, screen) == IF IsRunApp(a) THEN a.input ELSE a[ScreenField[screen]].input

OutputOf(a, screen) == IF IsRunApp(a) THEN a.output ELSE a[ScreenField[screen]].output

(* The loop is inside a handler that makes a call. *)
InCall == pc \in {"execute", "awaiting"}

(* The next event is Enter, in a screen whose input is not blank. *)
IsSubmit ==
    /\ events # <<>> /\ Head(events) = Enter
    /\ ViewOf(app) \in Screens
    /\ Trim(InputOf(app, ViewOf(app))) # <<>>

(* This step reads a key press. *)
ReadsKey == handled' = handled + 1

(* C17: at most one network call is outstanding, a call is launched only   *)
(* by a submit (Enter in a screen whose input is not blank), and from the  *)
(* launch until the call has returned no key press is read: the presses    *)
(* made meanwhile stay queued.                                             *)
C17_OneCallAtATime ==
    [][/\ Len(requests') <= 1
       /\ (requests' # <<>> /\ requests = <<>>) => pc = "execute"
       /\ (pc' = "execute" /\ pc # "execute") =>
            /\ pc = "poll" /\ IsSubmit /\ ReadsKey
            /\ call'.screen = ViewOf(app)
            /\ call'.input = Trim(InputOf(app, ViewOf(app)))
       /\ InCall =>
            /\ ~ReadsKey
            /\ SubSeq(events', 1, Len(events)) = events
            /\ pc' # "ended"]_vars

C17_Witness ==
    /\ pc = "awaiting" /\ Len(requests) = 1
    /\ events # <<>> /\ Head(events) = Enter
    /\ handled > 0

(* This step ends a call with an error: the awaited call returns one, or   *)
(* the submit finds no client to call with.                                *)
CallFails ==
    /\ ~result'.ok
    /\ \/ pc = "awaiting" /\ pc' # "awaiting"
       \/ pc = "poll" /\ IsSubmit /\ ReadsKey /\ pc' # "execute"

(* The output a failed call leaves on its screen. *)
OutputAfterFailure(screen) ==
    IF pc = "awaiting"
    THEN OutputOf(app, screen) \o <<ErrorLine(screen, result'.e)>>
    ELSE OutputOf(app, screen)
            \o <<command_preview(screen, call'.input), ErrorLine(screen, result'.e)>>

(* C18: when a call launched from a screen fails, whatever the reason, the *)
(* text of the error is appended to the output of that screen, the screen  *)
(* stays the active view and the loop goes on reading key presses.         *)
C18_FailureShownOnScreen ==
    [][/\ CallFails =>
            /\ OutputOf(app', call'.screen) = OutputAfterFailure(call'.screen)
            /\ ViewOf(app') = call'.screen
            /\ ViewOf(app') = ViewOf(app)
            /\ pc' = "poll"
       /\ (pc \in {"poll", "awaiting"} /\ IsSubmit /\ (ReadsKey \/ pc = "awaiting")) =>
            pc' # "ended"]_vars

C18_Witness ==
    /\ pc = "poll"
    /\ ~result.ok /\ result.e.kind \in {"ApiError", "JsonParseFailed", "RequestFailed"}
    /\ ViewOf(app) = call.screen
    /\ InputOf(app, call.screen) = <<"1">>

(* C19: a 'q' that the loop reads ends the loop, in every view and with    *)
(* text in the input, so no input ever holds a 'q'; an Esc that the loop   *)
(* reads makes the menu the active view.                                   *)
C19_QuitAndEscapeEverywhere ==
    [][/\ (ReadsKey /\ Head(events) = Char("q")) =>
            /\ pc' = "ended"
            /\ \A screen \in Screens : InputOf(app', screen) = InputOf(app, screen)
       /\ (ReadsKey /\ Head(events) = Esc) =>
            /\ ViewOf(app') = "Menu"
            /\ pc' = "poll"
       /\ \A screen \in Screens :
            \A i \in 1..Len(InputOf(app', screen)) : InputOf(app', screen)[i] # "q"]_vars

C19_Witness ==
    /\ pc = "ended"
    /\ ViewOf(app) = "Tracker"
    /\ InputOf(app, "Tracker") = <<"1", " ">>

(* C20: every client that exists was built with a timeout.  The tracker    *)
(* client is built without one.                                            *)
C20_EveryClientHasTimeout ==
    client # NoClient => IsSome(client.timeout)

(* C21: a 2xx response whose body was read but cannot be decoded makes the *)
(* call fail with JsonParseFailed, never with RequestFailed, which is      *)
(* returned only when no response was obtained.  Response::json() returns  *)
(* its decode error as a reqwest::Error, which `?` turns into              *)
(* RequestFailed.                                                          *)
C21_UndecodableBodyIsJsonParseFailed ==
    (Answered /\ is_success(resp.status) /\ resp.body # ReadFailed) =>
        result # Err(RequestFailed)

(* C22: the search plan-day sends asks for open issues, so no issue that   *)
(* is not open is in the task list of the prompt sent to the LLM.  The     *)
(* search is SearchRequest::default(), which asks for every issue.         *)
C22_PlanFromOpenIssuesOnly ==
    (call.op = "plan_day" /\ Len(requests) = 2) =>
        LET tasks == requests[2].body.v.o["messages"].a[2].o.content.s.task_list
        IN  \A i \in 1..Len(tasks) : tasks[i].status_display = "Open"

(* C26: Ask sends every sampling option given on the command line: the    *)
(* temperature whenever one is given and max_tokens whenever one is given, *)
(* whether or not the other is given.  The options are sent only when both *)
(* are given.                                                              *)
C26_AskAppliesEachOption ==
    (call.op = "ask" /\ requests # <<>>) =>
        LET body == requests[1].body.v.o
        IN  /\ IsSome(call.temperature) =>
                    /\ "temperature" \in DOMAIN body
                    /\ body["temperature"] = JNum(call.temperature.v.n)
            /\ IsSome(call.max_tokens) =>
                    /\ "max_tokens" \in DOMAIN body
                    /\ body["max_tokens"] = JNum(call.max_tokens.v.n)

(* C23: every call launched by a submit returns, and the loop polls for    *)
(* key presses again.  A tracker call has no timeout: with a remote side   *)
(* that never answers it is awaited forever.                               *)
C23_CallEventuallyReturns == (pc = "awaiting") ~> (pc = "poll")

(* The key press this step reads. *)
KeyRead == Head(events)

(* C24: the active view changes only when the loop reads '1' in the menu   *)
(* (the Tracker screen opens), '2' in the menu (the LLM screen opens) or   *)
(* Esc (back to the menu); every other step leaves it as it is, and a '1'  *)
(* or '2' read inside a screen is appended to the input of that screen.    *)
C24_ViewChangesByMenuKeysAndEsc ==
    [][/\ ViewOf(app') # ViewOf(app) =>
            /\ ReadsKey
            /\ \/ KeyRead = Char("1") /\ ViewOf(app) = "Menu" /\ ViewOf(app') = "Tracker"
               \/ KeyRead = Char("2") /\ ViewOf(app) = "Menu" /\ ViewOf(app') = "Llm"
               \/ KeyRead = Esc /\ ViewOf(app') = "Menu"
       /\ (ReadsKey /\ ViewOf(app) = "Menu" /\ KeyRead = Char("1")) =>
            ViewOf(app') = "Tracker"
       /\ (ReadsKey /\ ViewOf(app) = "Menu" /\ KeyRead = Char("2")) =>
            ViewOf(app') = "Llm"
       /\ (ReadsKey /\ KeyRead = Esc) => ViewOf(app') = "Menu"
       /\ (ReadsKey /\ ViewOf(app) \in Screens /\ KeyRead \in {Char("1"), Char("2")}) =>
            /\ ViewOf(app') = ViewOf(app)
            /\ InputOf(app', ViewOf(app)) =
                    Append(InputOf(app, ViewOf(app)), KeyRead.c)]_vars

C24_Witness ==
    /\ ViewOf(app) = "Llm"
    /\ InputOf(app, "Llm") = <<"1", "2">>
    /\ handled = 3

(* The text between the first and the last character of s that is not      *)
(* whitespace; s is blank when it has no such character.                   *)
Blank(s) == \A i \in 1..Len(s) : s[i] \in Whitespace

Inner(s) ==
    LET solid == {i \in 1..Len(s) : s[i] \notin Whitespace}
        first == CHOOSE i \in solid : \A j \in solid : i <= j
        last == CHOOSE i \in solid : \A j \in solid : j <= i
    IN  SubSeq(s, first, last)

IsTrackerConstructor == Done /\ call.client = "tracker" /\ call.op \in {"from_env", "with_token"}

(* C25: a WORK_PROXY that is set to an empty or all-whitespace value makes *)
(* the constructor fail with ConfigError and leaves no client; any other   *)
(* value parses to exactly "socks5://" followed by the value without its   *)
(* leading and trailing whitespace, which is the proxy of the client when  *)
(* one is built; with WORK_PROXY not set the client has no proxy.          *)
C25_WorkProxyParsed ==
    IsTrackerConstructor =>
        LET work_proxy == call.env.WORK_PROXY
        IN  /\ (work_proxy.set /\ work_proxy.unicode /\ Blank(work_proxy.s)) =>
                    /\ ~parse_work_proxy_url(work_proxy.s).ok
                    /\ parse_work_proxy_url(work_proxy.s).e.kind = "ConfigError"
                    /\ ~result.ok /\ result.e.kind = "ConfigError"
                    /\ client = NoClient
            /\ (work_proxy.set /\ work_proxy.unicode /\ ~Blank(work_proxy.s)) =>
                    /\ parse_work_proxy_url(work_proxy.s) =
                            Ok(<<"socks5://">> \o Inner(work_proxy.s))
                    /\ client # NoClient =>
                            client.proxy = Some(<<"socks5://">> \o Inner(work_proxy.s))
            /\ work_proxy = NotPresent =>
                    /\ client # NoClient => client.proxy = None
                    /\ call.op = "with_token" => client # NoClient

C25_Witness ==
    /\ IsTrackerConstructor
    /\ call.env.WORK_PROXY = EnvSet(<<" ", "h", " ">>)
    /\ client # NoClient
    /\ client.proxy = Some(<<"socks5://", "h">>)

(* C27: chat_completion given an empty list of messages returns            *)
(* InvalidRequest("Messages cannot be empty") and sends nothing; given a   *)
(* list that is not empty it sends one request whose messages are those of *)
(* the list, in the order of the list.                                     *)
C27_EmptyMessagesRefused ==
    call.op = "chat_completion" =>
        IF call.messages = <<>>
        THEN /\ Done
             /\ requests = <<>>
             /\ ~resp.arrived
             /\ result = Err(InvalidRequest("Messages cannot be empty"))
        ELSE /\ Len(requests) = 1
             /\ TheRequest.body.v.o["messages"] =
                    JArr([i \in 1..Len(call.messages) |->
                            MessageJson(call.messages[i].role, call.messages[i].content)])

C27_Witness ==
    /\ Done /\ call.op = "chat_completion" /\ call.messages = <<>>
    /\ client.kind = "llm"
    /\ requests = <<>>
    /\ result = Err(InvalidRequest("Messages cannot be empty"))

(* The lines a push drops from the front of the buffer. *)
Dropped == Len(app.output) + 1 - Len(app'.output)

(* C28: an output buffer never holds more than 200 lines; a push puts its  *)
(* line last, drops lines only from the front and only as many as the      *)
(* buffer would hold beyond 200, and leaves the lines it keeps in their    *)
(* order.                                                                  *)
C28_OutputKeepsLast200 ==
    [][/\ Len(app'.output) <= OutputLimit
       /\ Len(app'.output) =
            IF Len(app.output) + 1 > OutputLimit THEN OutputLimit
            ELSE Len(app.output) + 1
       /\ app'.output[Len(app'.output)] = call'.text
       /\ \A i \in 1..(Len(app'.output) - 1) :
            app'.output[i] = app.output[i + Dropped]]_vars

C28_Witness ==
    /\ call.op = "push_output" /\ handled = 2
    /\ Len(app.output) = OutputLimit
    /\ app.output[1] = Line(3)
    /\ app.output[OutputLimit - 1] \in PushTexts
    /\ app.output[OutputLimit] = call.text

(* The other screen. *)
Other(screen) == IF screen = "Tracker" THEN "Llm" ELSE "Tracker"

(* The other screen keeps its input and its output in this step, where the *)
(* screens have an input and an output each (App of tui/app.rs).           *)
OtherScreenKept(screen) ==
    ~IsRunApp(app) =>
        /\ InputOf(app', Other(screen)) = InputOf(app, Other(screen))
        /\ OutputOf(app', Other(screen)) = OutputOf(app, Other(screen))

(* The line a returned call leaves. *)
ResponseLine(screen) ==
    IF result'.ok THEN result'.v ELSE ErrorLine(screen, result'.e)

(* C29: a submit (Enter read in a screen whose input is not blank) calls   *)
(* with the trimmed input, appends the preview of the command to the       *)
(* output of its screen and empties the input; the call sends at most one  *)
(* request, and when it has returned its result or its error is appended   *)
(* directly after the preview: two lines for a submit, on the screen of    *)
(* the submit only.  run_app of tui/mod.rs empties the input when the call *)
(* has returned and not before; App of tui/app.rs before the call.         *)
C29_SubmitAppendsPreviewThenResponse ==
    [][/\ (pc = "poll" /\ IsSubmit /\ ReadsKey) =>
            LET screen == ViewOf(app)
                input == Trim(InputOf(app, screen))
            IN  /\ call'.screen = screen /\ call'.input = input
                /\ requests' = <<>>
                /\ pc' \in {"execute", "poll"}
                /\ pc' = "execute" =>
                    /\ OutputOf(app', screen) =
                            OutputOf(app, screen) \o <<command_preview(screen, input)>>
                    /\ ~IsRunApp(app) => InputOf(app', screen) = <<>>
                /\ pc' = "poll" =>
                    /\ OutputOf(app', screen) =
                            OutputOf(app, screen)
                                \o <<command_preview(screen, input), ResponseLine(screen)>>
                    /\ InputOf(app', screen) = <<>>
                /\ OtherScreenKept(screen)
       /\ pc = "execute" => (app' = app /\ Len(requests') <= 1)
       /\ pc = "awaiting" =>
            /\ Len(requests) = 1
            /\ OutputOf(app, call.screen)[Len(OutputOf(app, call.screen))] =
                    command_preview(call.screen, call.input)
            /\ pc' = "poll" =>
                /\ OutputOf(app', call.screen) =
                        OutputOf(app, call.screen) \o <<ResponseLine(call.screen)>>
                /\ InputOf(app', call.screen) = <<>>
                /\ OtherScreenKept(call.screen)
            /\ pc' # "poll" => app' = app]_vars

C29_Witness ==
    /\ pc = "poll" /\ result = Ok(Line("first"))
    /\ ~IsRunApp(app)
    /\ call.screen = "Llm" /\ call.input = <<"1">>
    /\ app.llm.input = <<>>
    /\ app.llm.output =
            LlmScreenNew.output \o <<command_preview("Llm", <<"1">>), Line("first")>>
    /\ app.tracker = TrackerScreenNew

====
